---- MODULE Spec2Model ----
(***************************************************************************)
(* A model of autofix-dojo's upgrade planning and remediation pipeline:    *)
(* the version parsers, HelmRelease's classification, the roadmap planner, *)
(* the step advisor and the branch/commit/push/PR executor.                *)
(*                                                                         *)
(* Python strings are sequences of one-character strings, so that the      *)
(* parsers are computed as the code computes them (lstrip, split, int).    *)
(* Python's None is the one-element sequence None.                         *)
(***************************************************************************)
EXTENDS Integers, Sequences, FiniteSets, TLC

None == <<"None">>

\* None where the value is a name (--chart not given)
NoName == "None"

(***************************************************************************)
(* str and int primitives of Python used by the parsers                    *)
(***************************************************************************)
DigitChars == <<"0", "1", "2", "3", "4", "5", "6", "7", "8", "9">>

isdigit(c) == \E i \in 1..10 : DigitChars[i] = c

DigitVal(c) == (CHOOSE i \in 1..10 : DigitChars[i] = c) - 1

\* code point order of the characters that occur in version strings
Ord(c) ==
    IF c = "-" THEN 45
    ELSE IF c = "." THEN 46
    ELSE IF isdigit(c) THEN 48 + DigitVal(c)
    ELSE IF c = "b" THEN 98
    ELSE IF c = "r" THEN 114
    ELSE IF c = "v" THEN 118
    ELSE 120

\* str < str
RECURSIVE StrLess(_, _)
StrLess(a, b) ==
    IF b = <<>> THEN FALSE
    ELSE IF a = <<>> THEN TRUE
    ELSE IF Head(a) = Head(b) THEN StrLess(Tail(a), Tail(b))
    ELSE Ord(Head(a)) < Ord(Head(b))

\* s.lstrip(c): every leading c is removed
RECURSIVE lstrip(_, _)
lstrip(s, c) ==
    IF s # <<>> /\ Head(s) = c THEN lstrip(Tail(s), c) ELSE s

\* s.split(sep) / re.split("[seps]", s): the pieces between separators,
\* empty pieces included
RECURSIVE SplitFrom(_, _, _)
SplitFrom(s, seps, piece) ==
    IF s = <<>> THEN <<piece>>
    ELSE IF Head(s) \in seps THEN <<piece>> \o SplitFrom(Tail(s), seps, <<>>)
    ELSE SplitFrom(Tail(s), seps, Append(piece, Head(s)))

split(s, seps) == SplitFrom(s, seps, <<>>)

RECURSIVE DigitsValue(_, _)
DigitsValue(s, acc) ==
    IF s = <<>> THEN acc ELSE DigitsValue(Tail(s), 10 * acc + DigitVal(Head(s)))

AllDigits(s) == s # <<>> /\ \A i \in 1..Len(s) : isdigit(s[i])

\* int(s) raises ValueError unless s is an optionally signed run of digits
IntOk(s) ==
    \/ AllDigits(s)
    \/ s # <<>> /\ Head(s) = "-" /\ AllDigits(Tail(s))

int(s) ==
    IF Head(s) = "-" THEN 0 - DigitsValue(Tail(s), 0) ELSE DigitsValue(s, 0)

\* str(n) for n >= 0
RECURSIVE str(_)
str(n) ==
    IF n < 10 THEN <<DigitChars[n + 1]>>
    ELSE Append(str(n \div 10), DigitChars[(n % 10) + 1])

\* the text "a.b.c"
V(a, b, c) == str(a) \o <<".">> \o str(b) \o <<".">> \o str(c)

\* the text "a.b"
V2(a, b) == str(a) \o <<".">> \o str(b)

\* tuple < tuple, as Python orders tuples of integers
RECURSIVE TupleLess(_, _)
TupleLess(a, b) ==
    IF b = <<>> THEN FALSE
    ELSE IF a = <<>> THEN TRUE
    ELSE IF Head(a) = Head(b) THEN TupleLess(Tail(a), Tail(b))
    ELSE Head(a) < Head(b)

TupleLeq(a, b) == a = b \/ TupleLess(a, b)


(***************************************************************************)
(* Version parsers.  The program has four, and they differ.                *)
(***************************************************************************)

\* fixer.py, SemVer
SemVer(major, minor, patch, prerelease) ==
    [major |-> major, minor |-> minor, patch |-> patch,
     prerelease |-> prerelease]

\* the text after the first "-" of s, and <<>> when s has none
RECURSIVE AfterDash(_)
AfterDash(s) ==
    IF s = <<>> THEN <<>>
    ELSE IF Head(s) = "-" THEN Tail(s)
    ELSE AfterDash(Tail(s))

\* fixer.py, parse_semver: ^v?(\d+)\.(\d+)\.(\d+)(?:-(.+))?$ and, when that
\* does not match, ^v?(\d+)\.(\d+)$; None when neither matches
SemVerForm(version) ==
    LET text == IF version # <<>> /\ Head(version) = "v"
                THEN Tail(version) ELSE version
        dashed == \E i \in 1..Len(text) : text[i] = "-"
        parts == split(split(text, {"-"})[1], {"."})
        numbers == \A i \in 1..Len(parts) : AllDigits(parts[i])
    IN  IF Len(parts) = 3 /\ numbers /\ (dashed => AfterDash(text) # <<>>)
        THEN "full"
        ELSE IF Len(parts) = 2 /\ numbers /\ ~dashed
        THEN "short"
        ELSE "none"

\* fixer.py, parse_semver: the SemVer of a text of either form, else None
parse_semver(version) ==
    LET text == IF version # <<>> /\ Head(version) = "v"
                THEN Tail(version) ELSE version
        parts == split(split(text, {"-"})[1], {"."})
    IN  IF SemVerForm(version) = "full"
        THEN SemVer(int(parts[1]), int(parts[2]), int(parts[3]),
                    AfterDash(text))
        ELSE IF SemVerForm(version) = "short"
        THEN SemVer(int(parts[1]), int(parts[2]), 0, <<>>)
        ELSE None

\* scanner.py, version_gap: int(version.lstrip("v").split(".")[0])
MajorOk(version) == IntOk(split(lstrip(version, "v"), {"."})[1])

Major(version) == int(split(lstrip(version, "v"), {"."})[1])

\* cli.py, _get_next_major_version.parse_version: a triple, missing segments
\* 0, and (0, 0, 0) when a used segment is not a number
parse_version(v) ==
    LET parts == split(lstrip(v, "v"), {".", "-"})
        used == SubSeq(parts, 1, IF Len(parts) < 3 THEN Len(parts) ELSE 3)
    IN  IF \A i \in 1..Len(used) : IntOk(used[i])
        THEN << int(parts[1]),
                IF Len(parts) > 1 THEN int(parts[2]) ELSE 0,
                IF Len(parts) > 2 THEN int(parts[3]) ELSE 0 >>
        ELSE <<0, 0, 0>>

\* roadmap.py, _parse_version: a tuple with one integer per dotted segment of
\* the text before the first "-"; ValueError when a segment is not a number
RoadmapCleanParts(version) ==
    split(split(lstrip(version, "v"), {"-"})[1], {"."})

RoadmapParseOk(version) ==
    LET parts == RoadmapCleanParts(version)
    IN  \A i \in 1..Len(parts) : IntOk(parts[i])

roadmap_parse_version(version) ==
    LET parts == RoadmapCleanParts(version)
    IN  [i \in 1..Len(parts) |-> int(parts[i])]

\* roadmap.py, _version_in_range: s < v <= e, False when a parse raises
version_in_range(version, start, end) ==
    IF RoadmapParseOk(version) /\ RoadmapParseOk(start) /\ RoadmapParseOk(end)
    THEN LET v == roadmap_parse_version(version)
             s == roadmap_parse_version(start)
             e == roadmap_parse_version(end)
         IN  TupleLess(s, v) /\ TupleLeq(v, e)
    ELSE FALSE

(***************************************************************************)
(* Roadmap planner (helm/roadmap.py)                                       *)
(***************************************************************************)

\* a dict as the sequence of its items, in insertion order
DictGet(items, key, default) ==
    IF \E i \in 1..Len(items) : items[i].key = key
    THEN items[CHOOSE i \in 1..Len(items) : items[i].key = key].value
    ELSE default

Marker(version, changes, risk, notes) ==
    [key |-> version,
     value |-> [breaking_changes |-> changes, risk |-> risk, notes |-> notes]]

Hop(from, to) == [key |-> from, value |-> to]

BREAKING_CHANGES_DB(chart) ==
    IF chart = "velero" THEN
        << Marker(V(5, 0, 0), <<"velero-5-a", "velero-5-b">>, "high",
                  "Apply CRDs before upgrade"),
           Marker(V(7, 0, 0), <<"velero-7-a", "velero-7-b">>, "high",
                  "Critical if using CSI snapshots"),
           Marker(V(9, 0, 0), <<"velero-9-a", "velero-9-b">>, "medium",
                  "Update values.yaml accordingly"),
           Marker(V(11, 0, 0), <<"velero-11-a", "velero-11-b">>, "medium",
                  "Review fs-backup configuration") >>
    ELSE IF chart = "grafana" THEN
        << Marker(V(10, 0, 0), <<"grafana-10-a", "grafana-10-b", "grafana-10-c">>,
                  "medium", "Test dashboards after upgrade") >>
    ELSE IF chart = "sumologic" THEN
        << Marker(V(4, 0, 0),
                  <<"sumologic-4-a", "sumologic-4-b", "sumologic-4-c", "sumologic-4-d">>,
                  "high", "Significant configuration changes required") >>
    ELSE IF chart = "cert-manager" THEN
        << Marker(V(1, 12, 0), <<"cert-manager-a", "cert-manager-b">>, "medium",
                  "Apply CRDs before upgrade") >>
    ELSE IF chart = "ingress-nginx" THEN
        << Marker(V(4, 0, 0), <<"ingress-nginx-a", "ingress-nginx-b">>, "high",
                  "Update all Ingress resources to v1 API") >>
    ELSE IF chart = "aws-load-balancer-controller" THEN
        << Marker(V(1, 5, 0), <<"aws-lbc-a">>, "medium",
                  "Review TargetGroupBinding resources") >>
    ELSE <<>>

UPGRADE_PATHS(chart) ==
    IF chart = "velero" THEN
        << Hop(V(4, 3, 0), V(5, 4, 1)), Hop(V(5, 4, 1), V(6, 7, 0)),
           Hop(V(6, 7, 0), V(7, 2, 2)), Hop(V(7, 2, 2), V(8, 7, 2)),
           Hop(V(8, 7, 2), V(10, 1, 3)), Hop(V(10, 1, 3), V(11, 2, 0)) >>
    ELSE IF chart = "grafana" THEN
        << Hop(V(9, 2, 10), V(9, 5, 0)), Hop(V(9, 5, 0), V(10, 0, 0)),
           Hop(V(10, 0, 0), V(10, 3, 0)) >>
    ELSE IF chart = "sumologic" THEN
        << Hop(V(3, 19, 5), V(4, 0, 0)), Hop(V(4, 0, 0), V(4, 10, 0)),
           Hop(V(4, 10, 0), V(4, 18, 0)) >>
    ELSE <<>>

\* the safety cap of the walk
MaxSteps == 20

\* len(roadmap.steps) > 20
CapFiredEarly(n) == n > 2

CapFired(n) == n > MaxSteps

\* a variant in which the marker visited last decides the risk
AddMarkerLastRisk(acc, bc_info) ==
    [breaking_changes |-> acc.breaking_changes \o bc_info.breaking_changes,
     risk |-> bc_info.risk,
     notes |-> IF bc_info.notes # "" THEN bc_info.notes ELSE acc.notes]

\* the for loop over breaking_changes.items(): what one matching marker adds
AddMarker(acc, bc_info) ==
    [breaking_changes |-> acc.breaking_changes \o bc_info.breaking_changes,
     risk |-> IF bc_info.risk = "high" THEN "high"
              ELSE IF bc_info.risk = "medium" /\ acc.risk # "high" THEN "medium"
              ELSE acc.risk,
     notes |-> IF bc_info.notes # "" THEN bc_info.notes ELSE acc.notes]

RECURSIVE ScanMarkers(_, _, _, _)
ScanMarkers(items, cur, next_version, acc) ==
    IF items = <<>> THEN acc
    ELSE ScanMarkers(Tail(items), cur, next_version,
            IF version_in_range(Head(items).key, cur, next_version)
            THEN AddMarker(acc, Head(items).value)
            ELSE acc)

\* a variant that always hops straight to the target
NextVersionDirect(table, cur, target) == target

\* path.get(current), replaced by the target when it is None or ""
NextVersion(table, cur, target) ==
    LET next_version == DictGet(table, cur, None)
    IN  IF next_version = None \/ next_version = <<>> THEN target ELSE next_version

\* UpgradeStep(from_version=current, to_version=next_version, ...)
UpgradeStep(db, table, cur, target) ==
    LET next_version == NextVersion(table, cur, target)
        found == ScanMarkers(db, cur, next_version,
                    [breaking_changes |-> <<>>, risk |-> "low", notes |-> ""])
    IN  [from_version |-> cur,
         to_version |-> next_version,
         breaking_changes |-> found.breaking_changes,
         notes |-> found.notes,
         risk |-> found.risk]

RECURSIVE StepMinutes(_)
StepMinutes(steps) ==
    IF steps = <<>> THEN 0
    ELSE (IF Head(steps).risk = "high" THEN 10 ELSE 5) + StepMinutes(Tail(steps))

\* the estimate as the comment of line 252 words it: 5 minutes per breaking
\* change
EstimatedTimeAsCommented(steps, total) == 5 + StepMinutes(steps) + total * 5

EstimatedTime(steps, total) == 5 + StepMinutes(steps) + total * 2

\* current = next_version
CursorStuck(step) == step.from_version

CursorAfter(step) == step.to_version


(***************************************************************************)
(* HelmRelease (helm/scanner.py)                                           *)
(***************************************************************************)

\* "not self.latest_version": None and "" are both unset
Unset(latest_version) == latest_version = None \/ latest_version = <<>>

IsOutdatedNoGuard(r) == r.current_version # r.latest_version

is_outdated(r) ==
    IF Unset(r.latest_version) THEN FALSE
    ELSE r.current_version # r.latest_version

version_gap(r) ==
    IF Unset(r.latest_version) THEN 0
    ELSE IF MajorOk(r.current_version) /\ MajorOk(r.latest_version)
         THEN Major(r.latest_version) - Major(r.current_version)
         ELSE 0

PriorityMinorOnlyAtZero(gap, outdated) ==
    IF gap >= 3 THEN "critical"
    ELSE IF gap >= 1 THEN "major"
    ELSE IF outdated /\ gap = 0 THEN "minor"
    ELSE "current"

\* the if/elif chain of HelmRelease.priority
PriorityOf(gap, outdated) ==
    IF gap >= 3 THEN "critical"
    ELSE IF gap >= 1 THEN "major"
    ELSE IF outdated THEN "minor"
    ELSE "current"

Priority(r) == PriorityOf(version_gap(r), is_outdated(r))

(***************************************************************************)
(* helm_upgrade_pr: filter by priority (cli.py)                            *)
(***************************************************************************)

\* priority_levels.get(priority, 1)
min_priority(option) ==
    IF option = "critical" THEN 0
    ELSE IF option = "major" THEN 1
    ELSE IF option = "minor" THEN 2
    ELSE IF option = "all" THEN 3
    ELSE 1

\* {"critical": 0, "major": 1, "minor": 2, "current": 4}.get(r.priority, 3)
r_priority(r) ==
    IF Priority(r) = "critical" THEN 0
    ELSE IF Priority(r) = "major" THEN 1
    ELSE IF Priority(r) = "minor" THEN 2
    ELSE IF Priority(r) = "current" THEN 4
    ELSE 3

\* the condition under which a release is appended to candidates
IsCandidate(r, option, chart_option) ==
    /\ r_priority(r) <= min_priority(option)
    /\ is_outdated(r)
    /\ chart_option = NoName \/ r.chart = chart_option \/ r.name = chart_option

(***************************************************************************)
(* git, as the executors drive it (cli.py, git_client.py)                  *)
(*                                                                         *)
(* A repository is a record: HEAD, the branch checked out; branches, each  *)
(* local branch's committed tree; index and worktree, the staged and the   *)
(* on-disk trees; remote, the branches of origin; prs, the heads of the    *)
(* pull requests opened.  A tree maps a file to its declarations, and a    *)
(* branch name is a sequence of its parts.                                 *)
(***************************************************************************)
master == <<"master">>

HeadTree(g) == g.branches[g.HEAD]

\* a file with staged or unstaged changes
Modified(g, f) == g.index[f] # HeadTree(g)[f] \/ g.worktree[f] # g.index[f]

\* git status --porcelain prints something
Dirty(g) == \E f \in DOMAIN g.worktree : Modified(g, f)

\* git checkout <name> is refused when the branch does not exist or when a
\* locally modified file differs between the two commits
CanCheckout(g, name) ==
    /\ name \in DOMAIN g.branches
    /\ \A f \in DOMAIN g.worktree :
          Modified(g, f) => HeadTree(g)[f] = g.branches[name][f]

\* git checkout <name>: local modifications are carried to the other branch
Checkout(g, name) ==
    IF ~CanCheckout(g, name) THEN g
    ELSE [g EXCEPT
            !.HEAD = name,
            !.index = [f \in DOMAIN g.index |->
                          IF g.index[f] # HeadTree(g)[f] THEN g.index[f]
                          ELSE g.branches[name][f]],
            !.worktree = [f \in DOMAIN g.worktree |->
                             IF Modified(g, f) THEN g.worktree[f]
                             ELSE g.branches[name][f]]]

\* git pull origin <name>: nothing to do when origin has nothing new,
\* a fast-forward of a clean tree otherwise
Pull(g, name) ==
    IF name \notin DOMAIN g.remote \/ g.remote[name] = HeadTree(g) \/ Dirty(g)
    THEN g
    ELSE [g EXCEPT !.branches[g.HEAD] = g.remote[name],
                   !.index = g.remote[name],
                   !.worktree = g.remote[name]]

BranchDeleteSkipped(g, name) == g

\* git branch -D <name>: the branch checked out cannot be deleted
BranchDelete(g, name) ==
    IF name \in DOMAIN g.branches /\ name # g.HEAD
    THEN [g EXCEPT !.branches =
             [b \in DOMAIN g.branches \ {name} |-> g.branches[b]]]
    ELSE g

CanCheckoutNew(g, name) == name \notin DOMAIN g.branches

\* git checkout -b <name>: a new branch at HEAD's commit, the tree kept
CheckoutNew(g, name) ==
    IF ~CanCheckoutNew(g, name) THEN g
    ELSE [g EXCEPT
            !.branches = [b \in DOMAIN g.branches \cup {name} |->
                             IF b = name THEN HeadTree(g) ELSE g.branches[b]],
            !.HEAD = name]

\* Path.write_text
WriteText(g, f, content) == [g EXCEPT !.worktree[f] = content]

\* git add <f> for each f of files
Add(g, files) ==
    [g EXCEPT !.index = [f \in DOMAIN g.index |->
        IF \E i \in 1..Len(files) : files[i] = f THEN g.worktree[f]
        ELSE g.index[f]]]

\* git commit has something staged
CanCommit(g) == g.index # HeadTree(g)

\* git commit -m: the index becomes the tip of the branch checked out
Commit(g) ==
    IF CanCommit(g) THEN [g EXCEPT !.branches[g.HEAD] = g.index] ELSE g

\* git push -u origin <name>
Push(g, name) ==
    IF name \notin DOMAIN g.branches THEN g
    ELSE [g EXCEPT !.remote = [b \in DOMAIN g.remote \cup {name} |->
             IF b = name THEN g.branches[name] ELSE g.remote[b]]]

\* gh pr create is refused for a head that was not pushed, that has no
\* change against the base, or that has a pull request already
CanCreatePR(g, name) ==
    /\ name \in DOMAIN g.remote
    /\ g.remote[name] # g.remote[master]
    /\ name \notin g.prs

\* gh pr create --head <name>
CreatePR(g, name) == [g EXCEPT !.prs = g.prs \cup {name}]

(***************************************************************************)
(* The edits of the executors                                              *)
(***************************************************************************)
StartsWith(s, p) == Len(s) >= Len(p) /\ SubSeq(s, 1, Len(p)) = p

\* what follows the first n characters
Rest(s, n) == SubSeq(s, n + 1, Len(s))

\* a declaration is [kind, value]: kind "tf" for version = "<value>",
\* "argocd" for targetRevision: <value>, "image" for image: <value>, "tag"
\* for tag: <value>, "other" for a form no pattern of the executors matches

\* re.sub of tf_pattern on one declaration: the quotes delimit the version
TfSub(line, old, new) ==
    IF line.kind = "tf" /\ line.value = old
    THEN [line EXCEPT !.value = new]
    ELSE line

\* re.sub of argocd_pattern on one declaration: an optional "v", then the
\* old version, then anything
ArgocdSub(line, old, new) ==
    IF line.kind # "argocd" THEN line
    ELSE IF line.value # <<>> /\ Head(line.value) = "v"
            /\ StartsWith(Tail(line.value), old)
         THEN [line EXCEPT !.value =
                  <<"v">> \o new \o Rest(Tail(line.value), Len(old))]
    ELSE IF StartsWith(line.value, old)
         THEN [line EXCEPT !.value = new \o Rest(line.value, Len(old))]
    ELSE line

\* cli.py 729-731 and 854-856: the Terraform pattern, and the ArgoCD pattern
\* when the first changed nothing
RewriteVersion(content, old, new) ==
    LET tf == [i \in 1..Len(content) |-> TfSub(content[i], old, new)]
    IN  IF tf # content THEN tf
        ELSE [i \in 1..Len(content) |-> ArgocdSub(content[i], old, new)]

\* re.sub of (image:\s*["']?)<old_image>(["']?) on one declaration
ImageSub(line, old_image, new_image) ==
    IF line.kind = "image" /\ StartsWith(line.value, old_image)
    THEN [line EXCEPT !.value = new_image \o Rest(line.value, Len(old_image))]
    ELSE line

\* re.sub of (tag:\s*["']?)<old_tag>(["']?) on one declaration
TagSub(line, old_tag, new_tag) ==
    IF line.kind = "tag" /\ StartsWith(line.value, old_tag)
    THEN [line EXCEPT !.value = new_tag \o Rest(line.value, Len(old_tag))]
    ELSE line

\* image.split(":")[-1]
TagOf(image) ==
    LET parts == split(image, {":"}) IN parts[Len(parts)]

\* re.search of either pattern of _update_file
ImageFound(content, old_image) ==
    \E i \in 1..Len(content) :
        content[i].kind = "image" /\ StartsWith(content[i].value, old_image)

TagFound(content, old_tag) ==
    \E i \in 1..Len(content) :
        content[i].kind = "tag" /\ StartsWith(content[i].value, old_tag)

\* _update_file after its first pattern
FirstPass(content, old_image, new_image) ==
    IF ImageFound(content, old_image)
    THEN [i \in 1..Len(content) |-> ImageSub(content[i], old_image, new_image)]
    ELSE content

\* git_client.py 103-132: the content _update_file leaves in the file
UpdatedContent(content, old_image, new_image) ==
    LET first == FirstPass(content, old_image, new_image)
    IN  IF TagFound(first, TagOf(old_image))
        THEN [i \in 1..Len(first) |->
                 TagSub(first[i], TagOf(old_image), TagOf(new_image))]
        ELSE first

\* _update_file's return value: modified
UpdateFound(content, old_image, new_image) ==
    \/ ImageFound(content, old_image)
    \/ TagFound(FirstPass(content, old_image, new_image), TagOf(old_image))

(***************************************************************************)
(* State                                                                   *)
(***************************************************************************)
VARIABLES
    \* generate_roadmap
    roadmap,            \* the UpgradeRoadmap under construction
    path,               \* UPGRADE_PATHS.get(chart, {})
    breaking_changes,   \* BREAKING_CHANGES_DB.get(chart, {})
    current,            \* the cursor of the walk
    warned,             \* logger.warning("Too many upgrade steps ...") was emitted
    rpc                 \* where generate_roadmap is: idle, loop, estimate, done

VARIABLES
    \* helm_upgrade_pr: the scan and the choice of candidates
    releases,           \* the HelmRelease list the scan returned
    priority,           \* --priority
    chart,              \* --chart, None when not given
    fetched,            \* how many releases _fetch_latest_version has been called on
    candidates,         \* the releases chosen for an upgrade
    upc,                \* where helm_upgrade_pr is: idle, scan, filter, chosen, none
    sources             \* a scan: what it is given and how far it has come

VARIABLES
    \* _get_next_major_version
    advisor,            \* the arguments: current, latest, all_versions
    new_version,        \* the version returned
    apc                 \* where the call is: idle, called, returned

VARIABLES
    \* the executors
    mode,               \* which executor runs: batched, individual, apply_fix
    processed_releases, \* the argument of the two helm executors
    suggestions,        \* the list scan_and_fix loops over
    git,                \* the repository
    epc,                \* where the executor is
    unit,               \* the index of the tier, release or suggestion at hand
    branch_name,        \* the feature branch of the unit at hand
    changes,            \* the charts edited in the batch
    files_changed,      \* the files to stage
    new_content,        \* per-release mode: the content computed before branching
    result,             \* apply_fix: the FixResult under construction
    success_count,      \* the pull requests counted as created
    report,             \* what each finished unit printed or returned
    failed,             \* the commands that failed: (unit, command)
    run,                \* how many times the command has been invoked
    earlier,            \* what the invocation before this one left behind
    dry_run,            \* --dry-run
    step_mode,          \* --step/--no-step
    findings,           \* the findings generate_fix_suggestions is given
    slo                 \* the SLO database file of SLOTracker

roadmapVars == <<roadmap, path, breaking_changes, current, warned, rpc>>

upgradeVars ==
    <<releases, priority, chart, fetched, candidates, upc, sources>>

advisorVars == <<advisor, new_version, apc>>

inputVars ==
    <<mode, processed_releases, suggestions, run, earlier, dry_run,
      step_mode, findings>>

executorVars ==
    <<inputVars, git, epc, unit, branch_name, changes, files_changed,
      new_content, result, success_count, report, failed, slo>>

vars == <<roadmapVars, upgradeVars, advisorVars, executorVars>>

(***************************************************************************)
(* generate_roadmap                                                        *)
(***************************************************************************)

\* how many versions the enumerated path tables range over
NumPathVersions == 3

PathVersions == {V(i, 0, 0) : i \in 1..NumPathVersions}

\* every path table over PathVersions: each version has a next hop or none
PathTables ==
    { SelectSeq([i \in 1..NumPathVersions |-> Hop(V(i, 0, 0), f[i])],
                LAMBDA h : h.value # None) :
        f \in [1..NumPathVersions -> PathVersions \cup {None}] }

\* knowledgebases for the enumerated tables: the same markers in both orders
SampleDBs ==
    { << Marker(V(1, 0, 0), <<"one-a">>, "low", "note one"),
         Marker(V(2, 0, 0), <<"two-a", "two-b">>, "high", "note two"),
         Marker(V(3, 0, 0), <<"three-a">>, "medium", "") >>,
      << Marker(V(3, 0, 0), <<"three-a">>, "medium", ""),
         Marker(V(2, 0, 0), <<"two-a", "two-b">>, "high", "note two"),
         Marker(V(1, 0, 0), <<"one-a">>, "low", "note one") >> }

RoadmapCalls ==
    [chart : {"demo"},
     current_version : PathVersions,
     target_version : {V(NumPathVersions, 0, 0), V(NumPathVersions + 1, 0, 0)},
     path : PathTables,
     breaking_changes : SampleDBs]
    \cup
    [chart : {"velero"},
     current_version : {V(4, 3, 0), V(6, 7, 0), V(8, 7, 2), V(11, 2, 0)},
     target_version : {V(11, 2, 0), V(7, 2, 2), V(9, 0, 0)},
     path : {UPGRADE_PATHS("velero")},
     breaking_changes : {BREAKING_CHANGES_DB("velero")}]
    \cup
    [chart : {"grafana", "cert-manager"},
     current_version : {V(9, 2, 10), V(1, 11, 0)},
     target_version : {V(10, 3, 0), V(1, 12, 0)},
     path : {<<>>},
     breaking_changes : {<<>>}]

RoadmapIdle ==
    /\ roadmap = [chart |-> "", current_version |-> <<>>, target_version |-> <<>>,
                  steps |-> <<>>, total_breaking_changes |-> 0,
                  estimated_time_minutes |-> 0]
    /\ path = <<>>
    /\ breaking_changes = <<>>
    /\ current = <<>>
    /\ warned = FALSE
    /\ rpc = "idle"

\* lines 201-211: the roadmap is constructed and the tables are looked up
RoadmapStarts(call) ==
    /\ roadmap = [chart |-> call.chart,
                  current_version |-> call.current_version,
                  target_version |-> call.target_version,
                  steps |-> <<>>,
                  total_breaking_changes |-> 0,
                  estimated_time_minutes |-> 0]
    /\ path = IF call.chart = "demo" THEN call.path ELSE UPGRADE_PATHS(call.chart)
    /\ breaking_changes = IF call.chart = "demo" THEN call.breaking_changes
                          ELSE BREAKING_CHANGES_DB(call.chart)
    /\ current = call.current_version
    /\ warned = FALSE
    /\ rpc = "loop"

InitRoadmap == \E call \in RoadmapCalls : RoadmapStarts(call)

\* calls whose hops start on, end on, jump over and fall between the markers
\* of the knowledgebase
HopTables ==
    { <<>>,
      << Hop(V(1, 0, 0), V(2, 0, 0)), Hop(V(2, 0, 0), V(3, 0, 0)) >>,
      << Hop(V(1, 0, 0), V(2, 5, 0)), Hop(V(2, 5, 0), V(3, 0, 0)) >>,
      << Hop(V(1, 0, 0), V(1, 5, 0)), Hop(V(1, 5, 0), V(1, 0, 0)) >> }

HopCalls ==
    [chart : {"demo"},
     current_version : {V(0, 9, 0), V(1, 0, 0), V(2, 0, 0)},
     target_version : {V(3, 0, 0), V(3, 1, 0)},
     path : HopTables,
     breaking_changes : SampleDBs]
    \cup
    [chart : {"velero"},
     current_version : {V(4, 3, 0), V(5, 0, 0), V(6, 7, 0)},
     target_version : {V(11, 2, 0), V(7, 0, 0), V(11, 0, 0)},
     path : {UPGRADE_PATHS("velero")},
     breaking_changes : {BREAKING_CHANGES_DB("velero")}]

InitHops == \E call \in HopCalls : RoadmapStarts(call)

\* calls whose versions are written with a "v" or with two segments
WrittenTables ==
    { <<>>,
      << Hop(V2(1, 0), V(2, 0, 0)), Hop(V(2, 0, 0), V2(3, 0)) >>,
      << Hop(<<"v">> \o V(1, 0, 0), V2(2, 0)), Hop(V2(2, 0), V(3, 0, 0)) >> }

WrittenCalls ==
    [chart : {"demo"},
     current_version : {V2(0, 9), V2(1, 0), V2(2, 0), V(2, 0, 0),
                        <<"v">> \o V(1, 0, 0)},
     target_version : {V(3, 0, 0), V2(3, 0), <<"v">> \o V(3, 0, 0)},
     path : WrittenTables,
     breaking_changes : SampleDBs]

InitWritten == \E call \in WrittenCalls : RoadmapStarts(call)

\* lines 212-250: one iteration of the while loop
RoadmapIterate ==
    /\ rpc = "loop"
    /\ current # roadmap.target_version
    /\ LET step == UpgradeStep(breaking_changes, path, current, roadmap.target_version)
           steps == Append(roadmap.steps, step)
       IN  /\ roadmap' = [roadmap EXCEPT
                            !.steps = steps,
                            !.total_breaking_changes = @ + Len(step.breaking_changes)]
           /\ current' = CursorAfter(step)
           /\ warned' = CapFired(Len(steps))
           /\ rpc' = IF CapFired(Len(steps)) THEN "estimate" ELSE "loop"
    /\ UNCHANGED <<path, breaking_changes>>

\* line 212: the while condition fails
RoadmapReached ==
    /\ rpc = "loop"
    /\ current = roadmap.target_version
    /\ rpc' = "estimate"
    /\ UNCHANGED <<roadmap, path, breaking_changes, current, warned>>

\* lines 252-257: the estimate, and the return
RoadmapEstimate ==
    /\ rpc = "estimate"
    /\ roadmap' = [roadmap EXCEPT !.estimated_time_minutes =
                        EstimatedTime(roadmap.steps, roadmap.total_breaking_changes)]
    /\ rpc' = "done"
    /\ UNCHANGED <<path, breaking_changes, current, warned>>

(***************************************************************************)
(* helm_upgrade_pr: scan, resolve, choose candidates                       *)
(***************************************************************************)

\* the major versions the enumerated releases range over
MaxMajor == 4

\* version texts of the enumerated releases: plain triples, a minor update,
\* a "v" prefix, and a text that is no version
ReleaseVersions ==
    {V(m, 0, 0) : m \in 1..MaxMajor}
    \cup {V(1, 2, 0), <<"v">> \o V(2, 0, 0), <<"x">>}

HelmRelease(name, chart_name, version) ==
    [name |-> name,
     chart |-> chart_name,
     repository |-> "https://vmware-tanzu.github.io/helm-charts",
     current_version |-> version,
     latest_version |-> None]

\* no scan is modelled
NoSources == [kind |-> "none", files |-> <<>>, next |-> 1, answers |-> <<>>]

UpgradeIdle ==
    /\ releases = <<>>
    /\ priority = ""
    /\ chart = NoName
    /\ fetched = 0
    /\ candidates = <<>>
    /\ upc = "idle"
    /\ sources = NoSources

\* lines 580-589: the scan has parsed the sources; nothing is resolved yet
InitUpgrade ==
    /\ \E v1 \in ReleaseVersions, v2 \in {V(1, 0, 0), V(MaxMajor, 0, 0)},
          n \in 1..2 :
          releases = SubSeq(<< HelmRelease("backup", "velero", v1),
                               HelmRelease("dash", "grafana", v2) >>, 1, n)
    /\ priority \in {"critical", "major", "minor", "all", "urgent"}
    /\ chart \in {NoName, "velero"}
    /\ fetched = 0
    /\ candidates = <<>>
    /\ upc = "scan"
    /\ sources = NoSources

\* scanner.py 204-238, called from the loop at 149-150: the lookup either
\* records charts[0].get("version") or leaves latest_version unset
FetchLatestVersion ==
    /\ upc = "scan"
    /\ fetched < Len(releases)
    /\ \E found \in ReleaseVersions \cup {None, <<>>} :
          releases' = [releases EXCEPT ![fetched + 1].latest_version = found]
    /\ fetched' = fetched + 1
    /\ UNCHANGED <<priority, chart, candidates, upc, sources>>

\* scanner.py 152: the scan returns
ScanReturns ==
    /\ upc = "scan"
    /\ fetched = Len(releases)
    /\ upc' = "filter"
    /\ UNCHANGED <<releases, priority, chart, fetched, candidates, sources>>

\* cli.py 600-613: candidates are collected, or the command ends with none
FilterByPriority ==
    /\ upc = "filter"
    /\ candidates' = SelectSeq(releases, LAMBDA r : IsCandidate(r, priority, chart))
    /\ upc' = IF candidates' = <<>> THEN "none" ELSE "chosen"
    /\ UNCHANGED <<releases, priority, chart, fetched, sources>>

(***************************************************************************)
(* Step advisor: _get_next_major_version (cli.py)                          *)
(***************************************************************************)

\* the order of the (parsed, v) pairs that list.sort compares
PairLess(a, b) ==
    \/ TupleLess(parse_version(a), parse_version(b))
    \/ parse_version(a) = parse_version(b) /\ StrLess(a, b)

\* sort(); [0][1]
LowestOf(versions) ==
    CHOOSE v \in versions : \A w \in versions : w = v \/ PairLess(v, w)

FirstUnsorted(versions) ==
    CHOOSE v \in versions : \A w \in versions : w = v \/ PairLess(v, w)

\* sort(reverse=True); [0][1]
HighestOf(versions) ==
    CHOOSE v \in versions : \A w \in versions : w = v \/ PairLess(w, v)

\* lines 495-499
next_major_versions(cur, all_versions) ==
    {v \in all_versions : parse_version(v)[1] = parse_version(cur)[1] + 1}

IntermediateNoLowerBound(cur, latest, all_versions) ==
    {v \in all_versions : TupleLess(parse_version(v), parse_version(latest))}

\* lines 508-512
intermediate_versions(cur, latest, all_versions) ==
    {v \in all_versions :
        /\ TupleLess(parse_version(cur), parse_version(v))
        /\ TupleLess(parse_version(v), parse_version(latest))}

get_next_major_version(cur, latest, all_versions) ==
    IF parse_version(cur)[1] = parse_version(latest)[1] THEN latest
    ELSE IF next_major_versions(cur, all_versions) # {}
         THEN HighestOf(next_major_versions(cur, all_versions))
    ELSE IF intermediate_versions(cur, latest, all_versions) # {}
         THEN LowestOf(intermediate_versions(cur, latest, all_versions))
    ELSE latest

\* how many versions the enumerated repositories offer at most
MaxAvailable == 3

\* the versions a repository may offer: two per major, the newest major also
\* spelled with a "v", a bare major, a pre-release, and a text that is no version
AvailableVersions ==
    {V(m, n, 0) : m \in 1..MaxMajor, n \in {0, 5}}
    \cup {<<"v">> \o V(MaxMajor, 0, 0), <<"3">>, V(2, 5, 0) \o <<"-", "r">>, <<"x">>}

AdvisorIdle ==
    /\ advisor = [current |-> <<>>, latest |-> <<>>, all_versions |-> {}]
    /\ new_version = None
    /\ apc = "idle"

\* cli.py 640-647: the arguments of a call
InitAdvisor ==
    /\ \E cur \in {V(1, 0, 0), V(1, 5, 0), V(2, 0, 0)},
          latest \in {V(MaxMajor, 0, 0), V(MaxMajor, 5, 0), V(3, 0, 0), V(1, 5, 0)},
          all_versions \in SUBSET AvailableVersions :
          /\ Cardinality(all_versions) <= MaxAvailable
          /\ advisor = [current |-> cur, latest |-> latest,
                        all_versions |-> all_versions]
    /\ new_version = None
    /\ apc = "called"

\* lines 467-520
GetNextMajorVersion ==
    /\ apc = "called"
    /\ new_version' = get_next_major_version(advisor.current, advisor.latest,
                                             advisor.all_versions)
    /\ apc' = "returned"
    /\ UNCHANGED advisor

(***************************************************************************)
(* The executors: _create_batched_prs, _create_individual_prs (cli.py) and *)
(* apply_fix in the loop of scan_and_fix (git_client.py, cli.py)           *)
(***************************************************************************)

\* how many releases or suggestions one run is given
MaxBatch == 2

dev == <<"dev">>

priority_order == <<"critical", "major", "minor">>

\* a scanned and resolved release, with the file that declares it
Declared(name, chart_name, file, version, latest) ==
    [name |-> name,
     chart |-> chart_name,
     repository |-> "https://charts.example.com",
     current_version |-> version,
     latest_version |-> latest,
     source_file |-> file]

\* a variant that records the upgrade in the release itself
ProcessedWritesBack(release, new) ==
    [release |-> [release EXCEPT !.current_version = new],
     old_version |-> release.current_version,
     new_version |-> new]

\* an element of processed_releases: (release, old_version, new_version)
Processed(release, new) ==
    [release |-> release,
     old_version |-> release.current_version,
     new_version |-> new]

\* the releases a scan finds: a critical one, a major one, a minor one, and
\* one whose declaration is written in a form the patterns do not match
ScannedReleases ==
    << Declared("backup", "velero", "main.tf", V(1, 0, 0), V(4, 0, 0)),
       Declared("dash", "grafana", "main.tf", V(2, 0, 0), V(3, 0, 0)),
       Declared("certs", "cert-manager", "app.yaml", V(1, 0, 0), V(1, 5, 0)),
       Declared("logs", "loki", "app.yaml", V(3, 0, 0), V(4, 0, 0)) >>

\* the releases a run can be given, each upgraded to its latest version
HelmPool ==
    [i \in 1..Len(ScannedReleases) |->
        Processed(ScannedReleases[i], ScannedReleases[i].latest_version)]

\* the tree of master that declares them
HelmTree ==
    [f \in {"main.tf", "app.yaml"} |->
        IF f = "main.tf"
        THEN << [kind |-> "tf", value |-> V(1, 0, 0)],
                [kind |-> "tf", value |-> V(2, 0, 0)] >>
        ELSE << [kind |-> "argocd", value |-> V(1, 0, 0)],
                [kind |-> "other", value |-> V(3, 0, 0)] >>]

\* FixSuggestion
FixSuggestion(id, image, tag, suggested) ==
    [finding_id |-> id,
     current_image |-> image,
     current_tag |-> tag,
     suggested_tag |-> suggested]

full_current_image(s) == <<s.current_image, ":">> \o s.current_tag

full_suggested_image(s) == <<s.current_image, ":">> \o s.suggested_tag

\* the suggestions a run can be given: an image two manifests reference, an
\* image one manifest references, an image no manifest references
FixPool ==
    << FixSuggestion(1, "nginx", V(1, 23, 1), V(1, 23, 4)),
       FixSuggestion(2, "api", V(2, 0, 0), V(2, 0, 1)),
       FixSuggestion(3, "redis", V(7, 0, 0), V(7, 0, 1)) >>

\* the tree of the main branch the manifests are in
ManifestTree ==
    [f \in {"deployment.yaml", "values.yaml"} |->
        IF f = "deployment.yaml"
        THEN << [kind |-> "image", value |-> <<"nginx", ":">> \o V(1, 23, 1)],
                [kind |-> "image", value |-> <<"api", ":">> \o V(2, 0, 0)] >>
        ELSE << [kind |-> "tag", value |-> V(1, 23, 1)] >>]

\* git_client.py 92-95: the files rglob yields for "*.yaml", "*.yml",
\* "values*.yaml" and "Chart.yaml", in the order they are visited
ManifestVisits == <<"deployment.yaml", "values.yaml", "values.yaml">>

\* the lists of up to MaxBatch different elements of a pool
ListsOf(pool) ==
    LET picks == UNION {[1..n -> 1..Len(pool)] : n \in 1..MaxBatch}
    IN  {[i \in DOMAIN p |-> pool[p[i]]] :
            p \in {q \in picks : \A i, j \in DOMAIN q : q[i] = q[j] => i = j}}

\* FixResult(suggestion=suggestion)
FixResult(suggestion) ==
    [suggestion |-> suggestion,
     files_changed |-> <<>>,
     branch_name |-> <<>>,
     pr_url |-> None,
     success |-> FALSE,
     error |-> ""]

EchoUndistinguished(u, name, outcome) ==
    [unit |-> u, branch |-> name,
     outcome |-> IF outcome = "PR created" THEN outcome ELSE "Failed to push"]

\* a line typer.echo prints when a unit of a helm run ends
Echo(u, name, outcome) == [unit |-> u, branch |-> name, outcome |-> outcome]

(***************************************************************************)
(* SLOTracker (slo_tracker.py): the database file is absent or holds the   *)
(* archived records and the run under way, <<>> when there is none         *)
(***************************************************************************)
NoDatabase == [exists |-> FALSE, records |-> <<>>, current |-> <<>>]

\* _ensure_db: _save_data({"records": [], "current": None})
EmptyDatabase == [exists |-> TRUE, records |-> <<>>, current |-> <<>>]

\* SLOTracker.__init__
ensure_db(db) == IF db.exists THEN db ELSE EmptyDatabase

\* SLOTracker.start_run
start_run(db, total_findings, auto_fixable) ==
    [exists |-> TRUE,
     records |-> db.records,
     current |-> << [total_findings |-> total_findings,
                     auto_fixable |-> auto_fixable,
                     auto_fixed |-> 0,
                     prs_created |-> <<>>] >>]

\* SLOTracker.record_fix
record_fix(db, pr_url) ==
    IF db.current = <<>> THEN db
    ELSE [exists |-> TRUE,
          records |-> db.records,
          current |-> << [db.current[1] EXCEPT
                             !.auto_fixed = @ + 1,
                             !.prs_created = Append(@, pr_url)] >>]

\* SLOTracker.complete_run
complete_run(db) ==
    IF db.current = <<>> THEN db
    ELSE [exists |-> TRUE,
          records |-> Append(db.records, db.current[1]),
          current |-> <<>>]

ExecutorIdle ==
    /\ mode = "idle"
    /\ processed_releases = <<>>
    /\ suggestions = <<>>
    /\ git = <<>>
    /\ epc = "idle"
    /\ unit = 0
    /\ branch_name = <<>>
    /\ changes = <<>>
    /\ files_changed = <<>>
    /\ new_content = <<>>
    /\ result = <<>>
    /\ success_count = 0
    /\ report = <<>>
    /\ failed = {}
    /\ run = 0
    /\ earlier = <<>>
    /\ dry_run = FALSE
    /\ step_mode = FALSE
    /\ findings = <<>>
    /\ slo = NoDatabase

\* a clone whose base branch is master, with master or another branch
\* checked out and nothing modified
Repository(tree, head) ==
    [HEAD |-> head,
     branches |-> [b \in {master, dev} |-> tree],
     index |-> tree,
     worktree |-> tree,
     remote |-> [b \in {master} |-> tree],
     prs |-> {}]

\* cli.py 88-98 and 653-658: an executor is entered with its list, scan_and_fix
\* having started its SLO run
InitExecutor ==
    /\ mode \in {"batched", "individual", "apply_fix"}
    /\ IF mode = "apply_fix"
       THEN processed_releases = <<>> /\ suggestions \in ListsOf(FixPool)
       ELSE processed_releases \in ListsOf(HelmPool) /\ suggestions = <<>>
    /\ \E head \in {master, dev} :
          git = Repository(IF mode = "apply_fix" THEN ManifestTree
                           ELSE HelmTree, head)
    /\ epc = (IF mode = "batched" THEN "tier"
              ELSE IF mode = "individual" THEN "read" ELSE "fix")
    /\ unit = 1
    /\ branch_name = <<>>
    /\ changes = <<>>
    /\ files_changed = <<>>
    /\ new_content = <<>>
    /\ result = <<>>
    /\ success_count = 0
    /\ report = <<>>
    /\ failed = {}
    /\ run = 1
    /\ earlier = <<>>
    /\ dry_run = FALSE
    /\ step_mode = FALSE
    /\ findings = <<>>
    /\ slo = (IF mode = "apply_fix"
              THEN start_run(EmptyDatabase, Len(suggestions), Len(suggestions))
              ELSE NoDatabase)

\* lines 693-704 and 863-871: checkout master, pull, branch -D, checkout -b
OnFreshBranch(g, name) ==
    CheckoutNew(BranchDelete(Pull(Checkout(g, master), master), name), name)

(***************************************************************************)
(* _create_batched_prs: one unit per priority tier                         *)
(***************************************************************************)

\* lines 673-675 and 686
by_priority(tier) ==
    SelectSeq(processed_releases, LAMBDA e : Priority(e.release) = tier)

\* line 697
BatchBranchName(tier) == <<"autofix", "helm", tier, "upgrades">>

\* lines 710-750: acc holds the repository, changes and files_changed
RECURSIVE EditBatch(_, _)
EditBatch(batch, acc) ==
    IF batch = <<>> THEN acc
    ELSE LET e == Head(batch)
             f == e.release.source_file
             content == acc.g.worktree[f]
             rewritten == RewriteVersion(content, e.old_version, e.new_version)
         IN  IF f \notin DOMAIN acc.g.worktree THEN EditBatch(Tail(batch), acc)
             ELSE IF rewritten = content THEN EditBatch(Tail(batch), acc)
             ELSE EditBatch(Tail(batch),
                     [g |-> WriteText(acc.g, f, rewritten),
                      changes |-> Append(acc.changes, e.release.chart),
                      files_changed |-> Append(acc.files_changed, f)])

\* lines 682-688: a tier without releases is passed over
BatchSkipTier ==
    /\ mode = "batched" /\ epc = "tier"
    /\ unit <= Len(priority_order)
    /\ by_priority(priority_order[unit]) = <<>>
    /\ unit' = unit + 1
    /\ UNCHANGED <<inputVars, slo, git, epc, branch_name, changes, files_changed,
                   new_content, result, success_count, report, failed>>

\* lines 690-708
BatchBranch ==
    /\ mode = "batched" /\ epc = "tier"
    /\ unit <= Len(priority_order)
    /\ by_priority(priority_order[unit]) # <<>>
    /\ branch_name' = BatchBranchName(priority_order[unit])
    /\ git' = OnFreshBranch(git, branch_name')
    /\ changes' = <<>>
    /\ files_changed' = <<>>
    /\ epc' = "edit"
    /\ UNCHANGED <<inputVars, slo, unit, new_content, result, success_count,
                   report, failed>>

\* lines 710-755
BatchEdit ==
    /\ mode = "batched" /\ epc = "edit"
    /\ LET acc == EditBatch(by_priority(priority_order[unit]),
                            [g |-> git, changes |-> <<>>,
                             files_changed |-> <<>>])
       IN  /\ changes' = acc.changes
           /\ files_changed' = acc.files_changed
           /\ IF acc.changes = <<>>
              THEN /\ git' = Checkout(acc.g, master)
                   /\ report' = Append(report,
                                       Echo(unit, branch_name, "no changes"))
                   /\ unit' = unit + 1
                   /\ epc' = "tier"
              ELSE /\ git' = acc.g
                   /\ epc' = "commit"
                   /\ UNCHANGED <<unit, report>>
    /\ UNCHANGED <<inputVars, slo, branch_name, new_content, result, success_count,
                   failed>>

\* lines 757-762: the return code of git commit is not read
BatchCommit ==
    /\ mode = "batched" /\ epc = "commit"
    /\ \E ok \in BOOLEAN :
          /\ git' = (IF ok THEN Commit(Add(git, files_changed))
                     ELSE Add(git, files_changed))
          /\ failed' = (IF ok THEN failed
                        ELSE failed \cup {<<unit, "commit">>})
    /\ epc' = "push"
    /\ UNCHANGED <<inputVars, slo, unit, branch_name, changes, files_changed,
                   new_content, result, success_count, report>>

\* lines 764-773
BatchPush ==
    /\ mode = "batched" /\ epc = "push"
    /\ \E ok \in BOOLEAN :
          IF ok
          THEN /\ git' = Push(git, branch_name)
               /\ epc' = "pr"
               /\ UNCHANGED <<unit, report, failed>>
          ELSE /\ git' = Checkout(git, master)
               /\ report' = Append(report,
                                   Echo(unit, branch_name, "Failed to push"))
               /\ failed' = failed \cup {<<unit, "push">>}
               /\ unit' = unit + 1
               /\ epc' = "tier"
    /\ UNCHANGED <<inputVars, slo, branch_name, changes, files_changed,
                   new_content, result, success_count>>

\* lines 800-814
BatchPR ==
    /\ mode = "batched" /\ epc = "pr"
    /\ \E ok \in {b \in BOOLEAN : b => CanCreatePR(git, branch_name)} :
          IF ok
          THEN /\ git' = Checkout(CreatePR(git, branch_name), master)
               /\ report' = Append(report,
                                   Echo(unit, branch_name, "PR created"))
               /\ success_count' = success_count + 1
               /\ UNCHANGED failed
          ELSE /\ git' = Checkout(git, master)
               /\ report' = Append(report,
                               Echo(unit, branch_name, "PR creation failed"))
               /\ failed' = failed \cup {<<unit, "pr">>}
               /\ UNCHANGED success_count
    /\ unit' = unit + 1
    /\ epc' = "tier"
    /\ UNCHANGED <<inputVars, slo, branch_name, changes, files_changed,
                   new_content, result>>

\* lines 816-817
BatchSummary ==
    /\ mode = "batched" /\ epc = "tier"
    /\ unit > Len(priority_order)
    /\ epc' = "done"
    /\ UNCHANGED <<inputVars, slo, git, unit, branch_name, changes, files_changed,
                   new_content, result, success_count, report, failed>>

(***************************************************************************)
(* _create_individual_prs: one unit per release                            *)
(***************************************************************************)

\* str.replace(".", "-")
Dashed(s) == [i \in 1..Len(s) |-> IF s[i] = "." THEN "-" ELSE s[i]]

\* line 866
IndividualBranchName(e) ==
    <<"autofix", "helm-upgrade", e.release.chart>> \o Dashed(e.new_version)

\* lines 833-860: the file is read on whatever branch is checked out
IndividualRead ==
    /\ mode = "individual" /\ epc = "read"
    /\ unit <= Len(processed_releases)
    /\ LET e == processed_releases[unit]
           f == e.release.source_file
           content == git.worktree[f]
           rewritten == RewriteVersion(content, e.old_version, e.new_version)
       IN  IF f \notin DOMAIN git.worktree
           THEN /\ report' = Append(report,
                                    Echo(unit, <<>>, "Source file not found"))
                /\ unit' = unit + 1
                /\ UNCHANGED <<epc, new_content>>
           ELSE IF rewritten = content
           THEN /\ report' = Append(report,
                       Echo(unit, <<>>, "Could not find version to update"))
                /\ unit' = unit + 1
                /\ UNCHANGED <<epc, new_content>>
           ELSE /\ new_content' = rewritten
                /\ epc' = "branch"
                /\ UNCHANGED <<unit, report>>
    /\ UNCHANGED <<inputVars, slo, git, branch_name, changes, files_changed,
                   result, success_count, failed>>

\* lines 862-871
IndividualBranch ==
    /\ mode = "individual" /\ epc = "branch"
    /\ branch_name' = IndividualBranchName(processed_releases[unit])
    /\ git' = OnFreshBranch(git, branch_name')
    /\ epc' = "write"
    /\ UNCHANGED <<inputVars, slo, unit, changes, files_changed, new_content,
                   result, success_count, report, failed>>

\* lines 873-876
IndividualWrite ==
    /\ mode = "individual" /\ epc = "write"
    /\ LET f == processed_releases[unit].release.source_file
       IN  /\ git' = Add(WriteText(git, f, new_content), <<f>>)
           /\ files_changed' = <<f>>
    /\ epc' = "commit"
    /\ UNCHANGED <<inputVars, slo, unit, branch_name, changes, new_content,
                   result, success_count, report, failed>>

\* lines 878-879: the return code of git commit is not read
IndividualCommit ==
    /\ mode = "individual" /\ epc = "commit"
    /\ \E ok \in BOOLEAN :
          /\ git' = (IF ok THEN Commit(git) ELSE git)
          /\ failed' = (IF ok THEN failed
                        ELSE failed \cup {<<unit, "commit">>})
    /\ epc' = "push"
    /\ UNCHANGED <<inputVars, slo, unit, branch_name, changes, files_changed,
                   new_content, result, success_count, report>>

\* lines 881-890
IndividualPush ==
    /\ mode = "individual" /\ epc = "push"
    /\ \E ok \in BOOLEAN :
          IF ok
          THEN /\ git' = Push(git, branch_name)
               /\ epc' = "pr"
               /\ UNCHANGED <<unit, report, failed>>
          ELSE /\ git' = Checkout(git, master)
               /\ report' = Append(report,
                                   Echo(unit, branch_name, "Failed to push"))
               /\ failed' = failed \cup {<<unit, "push">>}
               /\ unit' = unit + 1
               /\ epc' = "read"
    /\ UNCHANGED <<inputVars, slo, branch_name, changes, files_changed,
                   new_content, result, success_count>>

\* lines 920-932
IndividualPR ==
    /\ mode = "individual" /\ epc = "pr"
    /\ \E ok \in {b \in BOOLEAN : b => CanCreatePR(git, branch_name)} :
          IF ok
          THEN /\ git' = Checkout(CreatePR(git, branch_name), master)
               /\ report' = Append(report,
                                   Echo(unit, branch_name, "PR created"))
               /\ success_count' = success_count + 1
               /\ UNCHANGED failed
          ELSE /\ git' = Checkout(git, master)
               /\ report' = Append(report,
                               Echo(unit, branch_name, "PR creation failed"))
               /\ failed' = failed \cup {<<unit, "pr">>}
               /\ UNCHANGED success_count
    /\ unit' = unit + 1
    /\ epc' = "read"
    /\ UNCHANGED <<inputVars, slo, branch_name, changes, files_changed,
                   new_content, result>>

\* lines 934-935
IndividualSummary ==
    /\ mode = "individual" /\ epc = "read"
    /\ unit > Len(processed_releases)
    /\ epc' = "done"
    /\ UNCHANGED <<inputVars, slo, git, unit, branch_name, changes, files_changed,
                   new_content, result, success_count, report, failed>>

(***************************************************************************)
(* helm_upgrade_pr invoked again                                           *)
(***************************************************************************)

\* how many times the command is invoked on the clone
MaxRuns == 2

\* cli.py 523-658: the command is invoked again with the same arguments on
\* the clone the invocation before left.  The scan reads the files on disk,
\* so it yields the same releases when they declare what they declared.
HelmRerun ==
    /\ mode \in {"batched", "individual"} /\ epc = "done"
    /\ ~dry_run
    /\ run < MaxRuns
    /\ git.worktree = HelmTree
    /\ run' = run + 1
    /\ earlier' = [git |-> git, slo |-> slo, report |-> report,
                   failed |-> failed]
    /\ epc' = (IF mode = "batched" THEN "tier" ELSE "read")
    /\ unit' = 1
    /\ branch_name' = <<>>
    /\ changes' = <<>>
    /\ files_changed' = <<>>
    /\ new_content' = <<>>
    /\ success_count' = 0
    /\ report' = <<>>
    /\ failed' = {}
    /\ UNCHANGED <<mode, processed_releases, suggestions, dry_run, step_mode,
                   findings, git, result, slo>>

(***************************************************************************)
(* apply_fix, called for each suggestion by scan_and_fix                   *)
(* The configured main branch of the clone is master.                      *)
(***************************************************************************)

\* git_client.py 59-62: a failed checkout raises before the pull
checkout_main(g) ==
    IF CanCheckout(g, master) THEN Pull(Checkout(g, master), master) ELSE g

\* git_client.py 66-68: timestamp and uuid make a name no branch has yet
FixBranchName(n) == <<"autofix">> \o str(n)

\* git_client.py 89-101: acc holds the repository and changed_files
RECURSIVE UpdateManifests(_, _, _, _)
UpdateManifests(visits, old_image, new_image, acc) ==
    IF visits = <<>> THEN acc
    ELSE LET f == Head(visits)
             content == acc.g.worktree[f]
         IN  IF UpdateFound(content, old_image, new_image)
             THEN UpdateManifests(Tail(visits), old_image, new_image,
                     [g |-> WriteText(acc.g, f,
                               UpdatedContent(content, old_image, new_image)),
                      changed_files |-> Append(acc.changed_files, f)])
             ELSE UpdateManifests(Tail(visits), old_image, new_image, acc)

\* git_client.py 271-278 and cli.py 100-107: the finally clause returns to
\* the main branch, apply_fix returns, the loop records a success in the SLO
\* database and takes the next suggestion
Return(res, g) ==
    /\ git' = checkout_main(g)
    /\ result' = res
    /\ report' = Append(report, res)
    /\ success_count' = (IF res.success THEN success_count + 1
                         ELSE success_count)
    /\ slo' = (IF res.success THEN record_fix(slo, res.pr_url) ELSE slo)
    /\ unit' = unit + 1
    /\ epc' = "fix"

\* git_client.py 206-212
FixCleanState ==
    /\ mode = "apply_fix" /\ epc = "fix"
    /\ unit <= Len(suggestions)
    /\ IF Dirty(git)
       THEN Return([FixResult(suggestions[unit]) EXCEPT
                       !.error = "Working directory not clean"], git)
       ELSE /\ result' = FixResult(suggestions[unit])
            /\ epc' = "branch"
            /\ UNCHANGED <<git, unit, success_count, report, slo>>
    /\ UNCHANGED <<inputVars, branch_name, changes, files_changed,
                   new_content, failed>>

\* git_client.py 214-217
FixBranch ==
    /\ mode = "apply_fix" /\ epc = "branch"
    /\ IF CanCheckout(git, master)
          /\ CanCheckoutNew(checkout_main(git), FixBranchName(unit))
       THEN /\ branch_name' = FixBranchName(unit)
            /\ git' = CheckoutNew(checkout_main(git), branch_name')
            /\ result' = [result EXCEPT !.branch_name = branch_name']
            /\ epc' = "update"
            /\ UNCHANGED <<unit, success_count, report, slo>>
       ELSE /\ Return([result EXCEPT !.error = "git checkout failed"], git)
            /\ UNCHANGED branch_name
    /\ UNCHANGED <<inputVars, changes, files_changed, new_content, failed>>

\* git_client.py 219-229
FixUpdate ==
    /\ mode = "apply_fix" /\ epc = "update"
    /\ LET acc == UpdateManifests(ManifestVisits,
                      full_current_image(suggestions[unit]),
                      full_suggested_image(suggestions[unit]),
                      [g |-> git, changed_files |-> <<>>])
       IN  /\ files_changed' = acc.changed_files
           /\ IF acc.changed_files = <<>>
              THEN Return([result EXCEPT !.error = "No manifests found"],
                          checkout_main(acc.g))
              ELSE /\ git' = acc.g
                   /\ result' = [result EXCEPT
                                    !.files_changed = acc.changed_files]
                   /\ epc' = "commit"
                   /\ UNCHANGED <<unit, success_count, report, slo>>
    /\ UNCHANGED <<inputVars, branch_name, changes, new_content, failed>>

\* git_client.py 231-233, 134-144: a failed git commit raises
FixCommit ==
    /\ mode = "apply_fix" /\ epc = "commit"
    /\ \E ok \in {b \in BOOLEAN : b => CanCommit(Add(git, files_changed))} :
          IF ok
          THEN /\ git' = Commit(Add(git, files_changed))
               /\ epc' = "push"
               /\ UNCHANGED <<result, unit, success_count, report, failed,
                              slo>>
          ELSE /\ Return([result EXCEPT !.error = "git commit failed"],
                         Add(git, files_changed))
               /\ failed' = failed \cup {<<unit, "commit">>}
    /\ UNCHANGED <<inputVars, branch_name, changes, files_changed, new_content>>

\* git_client.py 235-238
FixPush ==
    /\ mode = "apply_fix" /\ epc = "push"
    /\ \E ok \in BOOLEAN :
          IF ok
          THEN /\ git' = Push(git, branch_name)
               /\ epc' = "pr"
               /\ UNCHANGED <<result, unit, success_count, report, failed,
                              slo>>
          ELSE /\ Return([result EXCEPT !.error = "Failed to push branch"],
                         git)
               /\ failed' = failed \cup {<<unit, "push">>}
    /\ UNCHANGED <<inputVars, branch_name, changes, files_changed, new_content>>

\* git_client.py 240-265
FixPR ==
    /\ mode = "apply_fix" /\ epc = "pr"
    /\ \E ok \in {b \in BOOLEAN : b => CanCreatePR(git, branch_name)} :
          IF ok
          THEN /\ Return([result EXCEPT !.pr_url = <<"pull">> \o branch_name,
                                        !.success = TRUE],
                         CreatePR(git, branch_name))
               /\ UNCHANGED failed
          ELSE /\ Return(result, git)
               /\ failed' = failed \cup {<<unit, "pr">>}
    /\ UNCHANGED <<inputVars, branch_name, changes, files_changed, new_content>>

\* cli.py 108-115
FixSummary ==
    /\ mode = "apply_fix" /\ epc = "fix"
    /\ unit > Len(suggestions)
    /\ slo' = complete_run(slo)
    /\ epc' = "done"
    /\ UNCHANGED <<inputVars, git, unit, branch_name, changes, files_changed,
                   new_content, result, success_count, report, failed>>

(***************************************************************************)
(* scan_and_fix and helm_upgrade_pr up to their executor: --dry-run        *)
(***************************************************************************)

\* a database that holds one archived run
UsedDatabase ==
    complete_run(record_fix(start_run(EmptyDatabase, 1, 1), <<"pull", "0">>))

\* a command is invoked, with or without --dry-run, on a clone with nothing
\* modified.  scan_and_fix has its suggestions to come and finds the SLO
\* database absent or used before; helm_upgrade_pr has scanned and chosen
\* its candidates (cli.py 580-617) and has no SLO database.
InitCommand ==
    /\ mode \in {"batched", "individual", "apply_fix"}
    /\ processed_releases = <<>>
    /\ findings = <<>>
    /\ IF mode = "apply_fix"
       THEN /\ suggestions \in ListsOf(FixPool)
            /\ step_mode = FALSE
            /\ slo \in {NoDatabase, UsedDatabase}
            /\ UpgradeIdle
       ELSE /\ suggestions = <<>>
            /\ step_mode \in BOOLEAN
            /\ slo = NoDatabase
            /\ candidates \in ListsOf(ScannedReleases)
            /\ releases = candidates
            /\ priority = "all"
            /\ chart = NoName
            /\ fetched = Len(releases)
            /\ upc = "chosen"
            /\ sources = NoSources
    /\ \E head \in {master, dev} :
          git = Repository(IF mode = "apply_fix" THEN ManifestTree
                           ELSE HelmTree, head)
    /\ dry_run \in BOOLEAN
    /\ earlier = [git |-> git, slo |-> slo, report |-> <<>>, failed |-> {}]
    /\ run = 1
    /\ epc = "setup"
    /\ unit = 1
    /\ branch_name = <<>>
    /\ changes = <<>>
    /\ files_changed = <<>>
    /\ new_content = <<>>
    /\ result = <<>>
    /\ success_count = 0
    /\ report = <<>>
    /\ failed = {}

\* cli.py 46-82: the clients are constructed, SLOTracker among them, the
\* findings are fetched and the suggestions generated and listed
ScanAndFixSetup ==
    /\ mode = "apply_fix" /\ epc = "setup"
    /\ slo' = ensure_db(slo)
    /\ epc' = "plan"
    /\ UNCHANGED <<inputVars, git, unit, branch_name, changes, files_changed,
                   new_content, result, success_count, report, failed>>

\* cli.py 84-86
ScanAndFixDryRun ==
    /\ mode = "apply_fix" /\ epc = "plan"
    /\ dry_run
    /\ epc' = "done"
    /\ UNCHANGED <<inputVars, slo, git, unit, branch_name, changes,
                   files_changed, new_content, result, success_count, report,
                   failed>>

\* cli.py 88-98
ScanAndFixStart ==
    /\ mode = "apply_fix" /\ epc = "plan"
    /\ ~dry_run
    /\ slo' = start_run(slo, Len(suggestions), Len(suggestions))
    /\ epc' = "fix"
    /\ UNCHANGED <<inputVars, git, unit, branch_name, changes, files_changed,
                   new_content, result, success_count, report, failed>>

\* cli.py 543-617: the scan and the choice of candidates
HelmUpgradeSetup ==
    /\ mode \in {"batched", "individual"} /\ epc = "setup"
    /\ epc' = "plan"
    /\ UNCHANGED <<inputVars, slo, git, unit, branch_name, changes,
                   files_changed, new_content, result, success_count, report,
                   failed>>

\* cli.py 619-621
HelmUpgradeDryRun ==
    /\ mode \in {"batched", "individual"} /\ epc = "plan"
    /\ dry_run
    /\ epc' = "done"
    /\ UNCHANGED <<inputVars, slo, git, unit, branch_name, changes,
                   files_changed, new_content, result, success_count, report,
                   failed>>

\* cli.py 643-645: in step mode a candidate more than one major behind has
\* its versions asked of scanner.fetch_all_versions, which HelmScanner does
\* not define
NeedsAllVersions == \E i \in 1..Len(candidates) : version_gap(candidates[i]) > 1

\* cli.py 637-651: each candidate with its current and its target version
ProcessedReleases ==
    [i \in 1..Len(candidates) |->
        Processed(candidates[i], candidates[i].latest_version)]

\* cli.py 623-645: the AttributeError ends the command
HelmUpgradeCrash ==
    /\ mode \in {"batched", "individual"} /\ epc = "plan"
    /\ ~dry_run
    /\ step_mode /\ NeedsAllVersions
    /\ epc' = "crashed"
    /\ UNCHANGED <<inputVars, slo, git, unit, branch_name, changes,
                   files_changed, new_content, result, success_count, report,
                   failed>>

\* cli.py 623-658
HelmUpgradeStart ==
    /\ mode \in {"batched", "individual"} /\ epc = "plan"
    /\ ~dry_run
    /\ ~(step_mode /\ NeedsAllVersions)
    /\ processed_releases' = ProcessedReleases
    /\ epc' = (IF mode = "batched" THEN "tier" ELSE "read")
    /\ UNCHANGED <<mode, suggestions, run, earlier, dry_run, step_mode,
                   findings, slo, git, unit, branch_name, changes, files_changed, new_content,
                   result, success_count, report, failed>>

(***************************************************************************)
(* HelmScanner: the three scans and the lookup of latest versions          *)
(* (helm/scanner.py)                                                       *)
(***************************************************************************)

\* two of the repositories of KNOWN_REPOS
KNOWN_REPOS ==
    {"https://vmware-tanzu.github.io/helm-charts", "https://charts.jetstack.io"}

\* HelmRelease(...) as the scans construct it; chart and versions are texts
ScanRelease(name, chart_name, repository, version, file) ==
    [name |-> name,
     chart |-> chart_name,
     repository |-> repository,
     current_version |-> version,
     latest_version |-> None,
     latest_app_version |-> None,
     source_file |-> file]

\* a helm_release block as _extract_attr reads it: "" or <<>> for an
\* attribute that is absent or refers to a variable
Block(name, chart_name, repository, version) ==
    [name |-> name, chart |-> chart_name, repository |-> repository,
     version |-> version]

\* a file on disk; read_text raises on one that is not readable
File(file, readable, content) ==
    [path |-> file, readable |-> readable, content |-> content]

\* scanner.py 154-188: the blocks that have a chart and a version
parse_terraform_file(file) ==
    LET kept == SelectSeq(file.content,
                          LAMBDA b : b.chart # "" /\ b.version # <<>>)
    IN  [i \in 1..Len(kept) |->
            ScanRelease(kept[i].name, kept[i].chart, kept[i].repository,
                        kept[i].version, file.path)]

\* a source of an Application: chart is "" for a git path source
Source(chart_name, repoURL, targetRevision) ==
    [chart |-> chart_name, repoURL |-> repoURL,
     targetRevision |-> targetRevision]

\* a YAML document: spec.source is <<>> when absent
Document(kind, apiVersion, name, source, more) ==
    [kind |-> kind, apiVersion |-> apiVersion, name |-> name,
     source |-> source, sources |-> more]

\* a document on which the YAML parser raises
Malformed == [kind |-> "malformed"]

\* scanner.py 295-315
extract_helm_from_source(source, app_name, file) ==
    IF source.chart = "" THEN <<>>
    ELSE << ScanRelease(app_name, source.chart, source.repoURL,
                        source.targetRevision, file) >>

RECURSIVE ExtractAll(_, _, _)
ExtractAll(more, app_name, file) ==
    IF more = <<>> THEN <<>>
    ELSE extract_helm_from_source(Head(more), app_name, file)
         \o ExtractAll(Tail(more), app_name, file)

\* scanner.py 265-293: the single source, then the sources array
parse_argocd_app(doc, file) ==
    IF doc.kind # "Application" THEN <<>>
    ELSE IF doc.apiVersion \notin {"argoproj.io/v1alpha1", "argoproj.io/v1"}
    THEN <<>>
    ELSE (IF doc.source = <<>> THEN <<>>
          ELSE extract_helm_from_source(doc.source[1], doc.name, file))
         \o ExtractAll(doc.sources, doc.name, file)

\* scanner.py 249-257: the documents of one file are parsed one after the
\* other inside the try; what was extended before a document raises stays
RECURSIVE ParseDocuments(_, _)
ParseDocuments(docs, file) ==
    IF docs = <<>> THEN <<>>
    ELSE IF Head(docs) = Malformed THEN <<>>
    ELSE parse_argocd_app(Head(docs), file) \o ParseDocuments(Tail(docs), file)

parse_argocd_file(file) ==
    IF file.readable THEN ParseDocuments(file.content, file.path) ELSE <<>>

\* s.rsplit("-", 1): the position of the last "-", 0 when there is none
LastDash(s) ==
    IF \E i \in 1..Len(s) : s[i] = "-"
    THEN CHOOSE i \in 1..Len(s) :
            s[i] = "-" /\ \A j \in (i + 1)..Len(s) : s[j] # "-"
    ELSE 0

\* scanner.py 331-339: a line of "helm list" as a release
ClusterRelease(hr) ==
    ScanRelease(hr.name,
                IF LastDash(hr.chart) = 0 THEN hr.chart
                ELSE SubSeq(hr.chart, 1, LastDash(hr.chart) - 1),
                "",
                IF LastDash(hr.chart) = 0 THEN <<>>
                ELSE SubSeq(hr.chart, LastDash(hr.chart) + 1, Len(hr.chart)),
                None)

\* what helm answers to one lookup: "helm repo add" raises or not, and
\* "helm search repo" raises, exits non-zero, prints no JSON, prints an
\* empty list, or prints the chart
HelmAnswers ==
    [add : {"ok"},
     search : {"raises", "nonzero", "garbage", "empty", "found"},
     version : {V(4, 0, 0)}, app_version : {V(1, 13, 0)}]
    \cup
    [add : {"raises"}, search : {"found"},
     version : {V(4, 0, 0)}, app_version : {V(1, 13, 0)}]

\* a variant that takes the output of a failed search for an answer
FetchTrustsFailedSearch(release, helm) ==
    IF release.repository = "" THEN release
    ELSE IF helm.search \in {"found", "nonzero"}
    THEN [release EXCEPT !.latest_version = helm.version,
                         !.latest_app_version = helm.app_version]
    ELSE release

\* scanner.py 204-238: the release after _fetch_latest_version
fetch_latest_version(release, helm) ==
    IF release.repository = "" THEN release
    ELSE IF release.repository \notin KNOWN_REPOS /\ helm.add = "raises"
    THEN release
    ELSE IF helm.search = "found"
    THEN [release EXCEPT !.latest_version = helm.version,
                         !.latest_app_version = helm.app_version]
    ELSE release

\* Terraform files: one release; one that cannot be read; a release of an
\* unknown repository, one without repository and a block without version
TerraformPool ==
    << File("backup.tf", TRUE,
            << Block("backup", "velero",
                     "https://vmware-tanzu.github.io/helm-charts",
                     V(4, 3, 0)) >>),
       File("locked.tf", FALSE,
            << Block("dash", "grafana", "https://charts.example.com",
                     V(9, 2, 10)) >>),
       File("apps.tf", TRUE,
            << Block("dash", "grafana", "https://charts.example.com",
                     V(9, 2, 10)),
               Block("local", "podinfo", "", V(1, 0, 0)),
               Block("pinned", "redis", "https://charts.example.com",
                     <<>>) >>) >>

\* YAML files: an Application with one chart source; one that names the
\* same chart under source and under sources, next to a git path source; an
\* Application followed by a document that does not parse; a file that is no
\* Application; a file that cannot be read
ArgocdPool ==
    << File("certs.yaml", TRUE,
            << Document("Application", "argoproj.io/v1alpha1", "certs",
                 << Source("cert-manager", "https://charts.jetstack.io",
                           V(1, 11, 0)) >>, <<>>) >>),
       File("logs.yaml", TRUE,
            << Document("Application", "argoproj.io/v1alpha1", "logs",
                 << Source("loki", "https://charts.example.com",
                           V(3, 0, 0)) >>,
                 << Source("loki", "https://charts.example.com", V(3, 0, 0)),
                    Source("", "https://git.example.com/values",
                           <<"m", "a", "i", "n">>) >>) >>),
       File("broken.yaml", TRUE,
            << Document("Application", "argoproj.io/v1alpha1", "dash",
                 << Source("grafana", "https://charts.example.com",
                           V(9, 2, 10)) >>, <<>>),
               Malformed >>),
       File("deploy.yml", TRUE,
            << Document("Deployment", "apps/v1", "web", <<>>, <<>>) >>),
       File("locked.yaml", FALSE, <<>>) >>

\* "helm list": fails, or lists two releases
ClusterPool ==
    { <<"fails">>,
      << [name |-> "backup", chart |-> <<"velero">> \o <<"-">> \o V(4, 3, 0)],
         [name |-> "ingress",
          chart |-> <<"ingress", "-", "nginx", "-">> \o V(4, 0, 1)] >> }

\* the scans that are run
Scans ==
    [kind : {"terraform"}, files : ListsOf(TerraformPool), next : {1},
     answers : {<<>>}]
    \cup
    [kind : {"argocd"}, files : ListsOf(ArgocdPool), next : {1},
     answers : {<<>>}]
    \cup
    [kind : {"cluster"}, files : ClusterPool, next : {1}, answers : {<<>>}]

\* a scan is called
InitScan ==
    /\ sources \in Scans
    /\ releases = <<>>
    /\ priority = "all"
    /\ chart = NoName
    /\ fetched = 0
    /\ candidates = <<>>
    /\ upc = "parse"

\* scanner.py 144-145, 154-156: the next .tf file is read and parsed;
\* read_text is called outside any try
ParseTerraformFile ==
    /\ upc = "parse"
    /\ sources.kind = "terraform"
    /\ LET file == sources.files[sources.next]
       IN  IF file.readable
           THEN /\ releases' = releases \o parse_terraform_file(file)
                /\ sources' = [sources EXCEPT !.next = @ + 1]
                /\ upc' = IF sources.next = Len(sources.files)
                          THEN "scan" ELSE "parse"
           ELSE /\ upc' = "raised"
                /\ UNCHANGED <<releases, sources>>
    /\ UNCHANGED <<priority, chart, fetched, candidates>>

\* scanner.py 248-257: the next YAML file is read and parsed inside a try
ParseArgocdFile ==
    /\ upc = "parse"
    /\ sources.kind = "argocd"
    /\ releases' = releases \o parse_argocd_file(sources.files[sources.next])
    /\ sources' = [sources EXCEPT !.next = @ + 1]
    /\ upc' = IF sources.next = Len(sources.files) THEN "scan" ELSE "parse"
    /\ UNCHANGED <<priority, chart, fetched, candidates>>

\* scanner.py 316-345: scan_cluster, which looks up no latest version
ListCluster ==
    /\ upc = "parse"
    /\ sources.kind = "cluster"
    /\ releases' = IF sources.files = <<"fails">> THEN <<>>
                   ELSE [i \in 1..Len(sources.files) |->
                            ClusterRelease(sources.files[i])]
    /\ upc' = "filter"
    /\ UNCHANGED <<priority, chart, fetched, candidates, sources>>

\* scanner.py 148-150, 259-261: the next release is looked up
ResolveLatest ==
    /\ upc = "scan"
    /\ sources.kind \in {"terraform", "argocd"}
    /\ fetched < Len(releases)
    /\ \E helm \in HelmAnswers :
          /\ releases' = [releases EXCEPT ![fetched + 1] =
                              fetch_latest_version(@, helm)]
          /\ sources' = [sources EXCEPT !.answers = Append(@, helm)]
    /\ fetched' = fetched + 1
    /\ UNCHANGED <<priority, chart, candidates, upc>>

(***************************************************************************)
(* fixer.py: fix suggestions for findings                                  *)
(***************************************************************************)
nginx == <<"n", "g", "i", "n", "x">>

python == <<"p", "y", "t", "h", "o", "n">>

node == <<"n", "o", "d", "e">>

redis == <<"r", "e", "d", "i", "s">>

postgres == <<"p", "o", "s", "t", "g", "r", "e", "s">>

\* fixer.py, KNOWN_SAFE_VERSIONS: image name -> (tag -> safe tag)
KNOWN_SAFE_VERSIONS ==
    << Hop(nginx, << Hop(V(1, 23, 1), V(1, 23, 4)),
                     Hop(V(1, 23, 2), V(1, 23, 4)),
                     Hop(V(1, 23, 3), V(1, 23, 4)),
                     Hop(V(1, 24, 0), V(1, 24, 0)),
                     Hop(V(1, 25, 0), V(1, 25, 4)),
                     Hop(V(1, 25, 1), V(1, 25, 4)) >>),
       Hop(python, << Hop(V(3, 9, 0), V(3, 9, 18)),
                      Hop(V(3, 10, 0), V(3, 10, 13)),
                      Hop(V(3, 11, 0), V(3, 11, 7)) >>),
       Hop(node, << Hop(V(18, 0, 0), V(18, 19, 0)),
                    Hop(V(20, 0, 0), V(20, 10, 0)) >>),
       Hop(redis, << Hop(V(7, 0, 0), V(7, 0, 14)),
                     Hop(V(7, 2, 0), V(7, 2, 4)) >>),
       Hop(postgres, << Hop(V2(15, 0), V2(15, 5)),
                        Hop(V2(16, 0), V2(16, 1)) >>) >>

\* str(SemVer): "M.m.p", followed by "-prerelease" when there is one
SemVerStr(semver) ==
    V(semver.major, semver.minor, semver.patch)
        \o (IF semver.prerelease # <<>>
            THEN <<"-">> \o semver.prerelease ELSE <<>>)

\* fixer.py, suggest_new_image_tag: the known mapping first, else patch + 3
\* without the prerelease, else None
suggest_new_image_tag(current_tag, image_name) ==
    LET segments == split(image_name, {"/"})
        base_name == split(segments[Len(segments)], {":"})[1]
        known == DictGet(KNOWN_SAFE_VERSIONS, base_name, <<>>)
        semver == parse_semver(current_tag)
    IN  IF DictGet(known, current_tag, None) # None
        THEN DictGet(known, current_tag, None)
        ELSE IF SemVerForm(current_tag) # "none"
        THEN SemVerStr(SemVer(semver.major, semver.minor, semver.patch + 3,
                              <<>>))
        ELSE None

\* models.py, Finding (the fields generate_fix_suggestions reads)
Finding(id, component_name, component_version) ==
    [id |-> id,
     component_name |-> component_name,
     component_version |-> component_version]

\* Python's "not text" for an optional text
Falsy(text) == text = None \/ text = <<>>

\* f"{finding.component_name}:{finding.component_version}"
image_key(finding) ==
    finding.component_name \o <<":">> \o finding.component_version

\* the loop of generate_fix_suggestions over the findings left
RECURSIVE SuggestEach(_, _, _)
SuggestEach(left, made, seen_images) ==
    IF left = <<>> THEN made
    ELSE LET finding == Head(left)
             suggested_tag ==
                 suggest_new_image_tag(finding.component_version,
                                       finding.component_name)
         IN  IF Falsy(finding.component_name)
                \/ Falsy(finding.component_version)
             THEN SuggestEach(Tail(left), made, seen_images)
             ELSE IF image_key(finding) \in seen_images
             THEN SuggestEach(Tail(left), made, seen_images)
             ELSE IF ~Falsy(suggested_tag)
                     /\ suggested_tag # finding.component_version
             THEN SuggestEach(Tail(left),
                              Append(made,
                                     FixSuggestion(finding.id,
                                                   finding.component_name,
                                                   finding.component_version,
                                                   suggested_tag)),
                              seen_images \cup {image_key(finding)})
             ELSE SuggestEach(Tail(left), made, seen_images)

\* a variant that never consults seen_images
SuggestForEveryFinding(findings_) ==
    LET kept == SelectSeq(findings_,
                     LAMBDA f : /\ ~Falsy(f.component_name)
                                /\ ~Falsy(f.component_version)
                                /\ ~Falsy(suggest_new_image_tag(
                                       f.component_version, f.component_name))
                                /\ suggest_new_image_tag(
                                       f.component_version, f.component_name)
                                   # f.component_version)
    IN  [i \in 1..Len(kept) |->
            FixSuggestion(kept[i].id, kept[i].component_name,
                          kept[i].component_version,
                          suggest_new_image_tag(kept[i].component_version,
                                                kept[i].component_name))]

\* fixer.py, generate_fix_suggestions
generate_fix_suggestions(findings_) == SuggestEach(findings_, <<>>, {})

MaxFindings == 3

\* findings of the vulnerability source: repeated images, a known mapping to
\* the same tag, missing and empty fields, a tag that is no version, a
\* two-part tag, an image with a registry path and one with a prerelease
FindingPool ==
    { Finding(1, nginx, V(1, 23, 1)),
      Finding(2, nginx, V(1, 23, 1)),
      Finding(3, nginx, V(1, 24, 0)),
      Finding(4, <<"a", "p", "i">>, V(2, 0, 0)),
      Finding(5, None, V(1, 0, 0)),
      Finding(6, redis, <<"l", "a", "t", "e", "s", "t">>),
      Finding(7, nginx, <<>>),
      Finding(8, <<"r", "/">> \o nginx, V(1, 23, 1)),
      Finding(9, <<"a", "p", "i">>, V2(1, 2)),
      Finding(10, redis, None),
      Finding(11, <<"a", "p", "i">>, V(2, 0, 0) \o <<"-", "r", "c">>) }

FindingLists == UNION {[1..n -> FindingPool] : n \in 0..MaxFindings}

InitFixer ==
    /\ mode = "suggest"
    /\ findings \in FindingLists
    /\ processed_releases = <<>>
    /\ suggestions = <<>>
    /\ git = <<>>
    /\ epc = "findings"
    /\ unit = 0
    /\ branch_name = <<>>
    /\ changes = <<>>
    /\ files_changed = <<>>
    /\ new_content = <<>>
    /\ result = <<>>
    /\ success_count = 0
    /\ report = <<>>
    /\ failed = {}
    /\ run = 0
    /\ earlier = <<>>
    /\ dry_run = FALSE
    /\ step_mode = FALSE
    /\ slo = NoDatabase

\* cli.py, scan_and_fix: suggestions = generate_fix_suggestions(findings)
GenerateFixSuggestions ==
    /\ mode = "suggest" /\ epc = "findings"
    /\ suggestions' = generate_fix_suggestions(findings)
    /\ epc' = "suggested"
    /\ UNCHANGED <<mode, processed_releases, run, earlier, dry_run, step_mode,
                   findings, git, unit, branch_name, changes, files_changed,
                   new_content, result, success_count, report, failed, slo>>

(***************************************************************************)
(* The helm executors over a file whose releases share a current version   *)
(***************************************************************************)
\* three releases declared in main.tf, two of them at the same version
SharedReleases ==
    << Declared("backup", "velero", "main.tf", V(1, 0, 0), V(4, 0, 0)),
       Declared("dns", "external-dns", "main.tf", V(1, 0, 0), V(5, 0, 0)),
       Declared("dash", "grafana", "main.tf", V(2, 0, 0), V(3, 0, 0)) >>

SharedPool ==
    [i \in 1..Len(SharedReleases) |->
        Processed(SharedReleases[i], SharedReleases[i].latest_version)]

\* main.tf holds one version = "..." declaration per release, in their order
SharedTree ==
    [f \in {"main.tf"} |->
        [i \in 1..Len(SharedReleases) |->
            [kind |-> "tf", value |-> SharedReleases[i].current_version]]]

InitShared ==
    /\ mode \in {"batched", "individual"}
    /\ processed_releases \in ListsOf(SharedPool)
    /\ suggestions = <<>>
    /\ \E head \in {master, dev} : git = Repository(SharedTree, head)
    /\ epc = (IF mode = "batched" THEN "tier" ELSE "read")
    /\ unit = 1
    /\ branch_name = <<>>
    /\ changes = <<>>
    /\ files_changed = <<>>
    /\ new_content = <<>>
    /\ result = <<>>
    /\ success_count = 0
    /\ report = <<>>
    /\ failed = {}
    /\ run = 1
    /\ earlier = <<>>
    /\ dry_run = FALSE
    /\ step_mode = FALSE
    /\ findings = <<>>
    /\ slo = NoDatabase

(***************************************************************************)
(* apply_fix over suggestions made by suggest_new_image_tag, one of them   *)
(* for a two-part tag                                                      *)
(***************************************************************************)
TagPool ==
    << FixSuggestion(4, "api", V2(1, 2),
                     suggest_new_image_tag(V2(1, 2), <<"a", "p", "i">>)),
       FixSuggestion(5, "redis", V(7, 0, 0),
                     suggest_new_image_tag(V(7, 0, 0), redis)) >>

TagTree ==
    [f \in {"deployment.yaml", "values.yaml"} |->
        IF f = "deployment.yaml"
        THEN << [kind |-> "image", value |-> <<"api", ":">> \o V2(1, 2)],
                [kind |-> "image", value |-> <<"redis", ":">> \o V(7, 0, 0)] >>
        ELSE << [kind |-> "tag", value |-> V2(1, 2)],
                [kind |-> "tag", value |-> V(7, 0, 0)] >>]

InitTags ==
    /\ mode = "apply_fix"
    /\ processed_releases = <<>>
    /\ suggestions \in ListsOf(TagPool)
    /\ \E head \in {master, dev} : git = Repository(TagTree, head)
    /\ epc = "fix"
    /\ unit = 1
    /\ branch_name = <<>>
    /\ changes = <<>>
    /\ files_changed = <<>>
    /\ new_content = <<>>
    /\ result = <<>>
    /\ success_count = 0
    /\ report = <<>>
    /\ failed = {}
    /\ run = 1
    /\ earlier = <<>>
    /\ dry_run = FALSE
    /\ step_mode = FALSE
    /\ findings = <<>>
    /\ slo = start_run(EmptyDatabase, Len(suggestions), Len(suggestions))

(***************************************************************************)
(* Specifications: one per command, the other commands' state idle         *)
(***************************************************************************)
RoadmapInit == InitRoadmap /\ UpgradeIdle /\ AdvisorIdle /\ ExecutorIdle

RoadmapNext ==
    \/ RoadmapIterate /\ UNCHANGED <<upgradeVars, advisorVars, executorVars>>
    \/ RoadmapReached /\ UNCHANGED <<upgradeVars, advisorVars, executorVars>>
    \/ RoadmapEstimate /\ UNCHANGED <<upgradeVars, advisorVars, executorVars>>

SpecRoadmap == RoadmapInit /\ [][RoadmapNext]_vars

HopsInit == InitHops /\ UpgradeIdle /\ AdvisorIdle /\ ExecutorIdle

HopsNext ==
    \/ RoadmapIterate /\ UNCHANGED <<upgradeVars, advisorVars, executorVars>>
    \/ RoadmapReached /\ UNCHANGED <<upgradeVars, advisorVars, executorVars>>
    \/ RoadmapEstimate /\ UNCHANGED <<upgradeVars, advisorVars, executorVars>>

SpecHops == HopsInit /\ [][HopsNext]_vars

WrittenInit == InitWritten /\ UpgradeIdle /\ AdvisorIdle /\ ExecutorIdle

WrittenNext ==
    \/ RoadmapIterate /\ UNCHANGED <<upgradeVars, advisorVars, executorVars>>
    \/ RoadmapReached /\ UNCHANGED <<upgradeVars, advisorVars, executorVars>>
    \/ RoadmapEstimate /\ UNCHANGED <<upgradeVars, advisorVars, executorVars>>

SpecWritten == WrittenInit /\ [][WrittenNext]_vars

UpgradeInit == InitUpgrade /\ RoadmapIdle /\ AdvisorIdle /\ ExecutorIdle

UpgradeNext ==
    \/ FetchLatestVersion /\ UNCHANGED <<roadmapVars, advisorVars, executorVars>>
    \/ ScanReturns /\ UNCHANGED <<roadmapVars, advisorVars, executorVars>>
    \/ FilterByPriority /\ UNCHANGED <<roadmapVars, advisorVars, executorVars>>

SpecUpgrade == UpgradeInit /\ [][UpgradeNext]_vars

ScanInit == InitScan /\ RoadmapIdle /\ AdvisorIdle /\ ExecutorIdle

ScanNext ==
    \/ ParseTerraformFile /\ UNCHANGED <<roadmapVars, advisorVars, executorVars>>
    \/ ParseArgocdFile /\ UNCHANGED <<roadmapVars, advisorVars, executorVars>>
    \/ ListCluster /\ UNCHANGED <<roadmapVars, advisorVars, executorVars>>
    \/ ResolveLatest /\ UNCHANGED <<roadmapVars, advisorVars, executorVars>>
    \/ ScanReturns /\ UNCHANGED <<roadmapVars, advisorVars, executorVars>>

SpecScan == ScanInit /\ [][ScanNext]_vars

FixerInit == InitFixer /\ RoadmapIdle /\ UpgradeIdle /\ AdvisorIdle

FixerNext ==
    GenerateFixSuggestions /\ UNCHANGED <<roadmapVars, upgradeVars, advisorVars>>

SpecFixer == FixerInit /\ [][FixerNext]_vars

SharedInit == InitShared /\ RoadmapIdle /\ UpgradeIdle /\ AdvisorIdle

SharedNext ==
    \/ BatchSkipTier /\ UNCHANGED <<roadmapVars, upgradeVars, advisorVars>>
    \/ BatchBranch /\ UNCHANGED <<roadmapVars, upgradeVars, advisorVars>>
    \/ BatchEdit /\ UNCHANGED <<roadmapVars, upgradeVars, advisorVars>>
    \/ BatchCommit /\ UNCHANGED <<roadmapVars, upgradeVars, advisorVars>>
    \/ BatchPush /\ UNCHANGED <<roadmapVars, upgradeVars, advisorVars>>
    \/ BatchPR /\ UNCHANGED <<roadmapVars, upgradeVars, advisorVars>>
    \/ BatchSummary /\ UNCHANGED <<roadmapVars, upgradeVars, advisorVars>>
    \/ IndividualRead /\ UNCHANGED <<roadmapVars, upgradeVars, advisorVars>>
    \/ IndividualBranch /\ UNCHANGED <<roadmapVars, upgradeVars, advisorVars>>
    \/ IndividualWrite /\ UNCHANGED <<roadmapVars, upgradeVars, advisorVars>>
    \/ IndividualCommit /\ UNCHANGED <<roadmapVars, upgradeVars, advisorVars>>
    \/ IndividualPush /\ UNCHANGED <<roadmapVars, upgradeVars, advisorVars>>
    \/ IndividualPR /\ UNCHANGED <<roadmapVars, upgradeVars, advisorVars>>
    \/ IndividualSummary /\ UNCHANGED <<roadmapVars, upgradeVars, advisorVars>>

SpecShared == SharedInit /\ [][SharedNext]_vars

TagsInit == InitTags /\ RoadmapIdle /\ UpgradeIdle /\ AdvisorIdle

TagsNext ==
    \/ FixCleanState /\ UNCHANGED <<roadmapVars, upgradeVars, advisorVars>>
    \/ FixBranch /\ UNCHANGED <<roadmapVars, upgradeVars, advisorVars>>
    \/ FixUpdate /\ UNCHANGED <<roadmapVars, upgradeVars, advisorVars>>
    \/ FixCommit /\ UNCHANGED <<roadmapVars, upgradeVars, advisorVars>>
    \/ FixPush /\ UNCHANGED <<roadmapVars, upgradeVars, advisorVars>>
    \/ FixPR /\ UNCHANGED <<roadmapVars, upgradeVars, advisorVars>>
    \/ FixSummary /\ UNCHANGED <<roadmapVars, upgradeVars, advisorVars>>

SpecTags == TagsInit /\ [][TagsNext]_vars

AdvisorInit == InitAdvisor /\ RoadmapIdle /\ UpgradeIdle /\ ExecutorIdle

AdvisorNext ==
    GetNextMajorVersion /\ UNCHANGED <<roadmapVars, upgradeVars, executorVars>>

SpecAdvisor == AdvisorInit /\ [][AdvisorNext]_vars

ExecutorInit == InitExecutor /\ RoadmapIdle /\ UpgradeIdle /\ AdvisorIdle

ExecutorNext ==
    \/ BatchSkipTier /\ UNCHANGED <<roadmapVars, upgradeVars, advisorVars>>
    \/ BatchBranch /\ UNCHANGED <<roadmapVars, upgradeVars, advisorVars>>
    \/ BatchEdit /\ UNCHANGED <<roadmapVars, upgradeVars, advisorVars>>
    \/ BatchCommit /\ UNCHANGED <<roadmapVars, upgradeVars, advisorVars>>
    \/ BatchPush /\ UNCHANGED <<roadmapVars, upgradeVars, advisorVars>>
    \/ BatchPR /\ UNCHANGED <<roadmapVars, upgradeVars, advisorVars>>
    \/ BatchSummary /\ UNCHANGED <<roadmapVars, upgradeVars, advisorVars>>
    \/ IndividualRead /\ UNCHANGED <<roadmapVars, upgradeVars, advisorVars>>
    \/ IndividualBranch /\ UNCHANGED <<roadmapVars, upgradeVars, advisorVars>>
    \/ IndividualWrite /\ UNCHANGED <<roadmapVars, upgradeVars, advisorVars>>
    \/ IndividualCommit /\ UNCHANGED <<roadmapVars, upgradeVars, advisorVars>>
    \/ IndividualPush /\ UNCHANGED <<roadmapVars, upgradeVars, advisorVars>>
    \/ IndividualPR /\ UNCHANGED <<roadmapVars, upgradeVars, advisorVars>>
    \/ IndividualSummary /\ UNCHANGED <<roadmapVars, upgradeVars, advisorVars>>
    \/ FixCleanState /\ UNCHANGED <<roadmapVars, upgradeVars, advisorVars>>
    \/ FixBranch /\ UNCHANGED <<roadmapVars, upgradeVars, advisorVars>>
    \/ FixUpdate /\ UNCHANGED <<roadmapVars, upgradeVars, advisorVars>>
    \/ FixCommit /\ UNCHANGED <<roadmapVars, upgradeVars, advisorVars>>
    \/ FixPush /\ UNCHANGED <<roadmapVars, upgradeVars, advisorVars>>
    \/ FixPR /\ UNCHANGED <<roadmapVars, upgradeVars, advisorVars>>
    \/ FixSummary /\ UNCHANGED <<roadmapVars, upgradeVars, advisorVars>>
    \/ HelmRerun /\ UNCHANGED <<roadmapVars, upgradeVars, advisorVars>>

SpecExecutor == ExecutorInit /\ [][ExecutorNext]_vars

CommandInit == InitCommand /\ RoadmapIdle /\ AdvisorIdle

CommandNext ==
    \/ ScanAndFixSetup /\ UNCHANGED <<roadmapVars, upgradeVars, advisorVars>>
    \/ ScanAndFixDryRun /\ UNCHANGED <<roadmapVars, upgradeVars, advisorVars>>
    \/ ScanAndFixStart /\ UNCHANGED <<roadmapVars, upgradeVars, advisorVars>>
    \/ HelmUpgradeSetup /\ UNCHANGED <<roadmapVars, upgradeVars, advisorVars>>
    \/ HelmUpgradeDryRun /\ UNCHANGED <<roadmapVars, upgradeVars, advisorVars>>
    \/ HelmUpgradeCrash /\ UNCHANGED <<roadmapVars, upgradeVars, advisorVars>>
    \/ HelmUpgradeStart /\ UNCHANGED <<roadmapVars, upgradeVars, advisorVars>>
    \/ BatchSkipTier /\ UNCHANGED <<roadmapVars, upgradeVars, advisorVars>>
    \/ BatchBranch /\ UNCHANGED <<roadmapVars, upgradeVars, advisorVars>>
    \/ BatchEdit /\ UNCHANGED <<roadmapVars, upgradeVars, advisorVars>>
    \/ BatchCommit /\ UNCHANGED <<roadmapVars, upgradeVars, advisorVars>>
    \/ BatchPush /\ UNCHANGED <<roadmapVars, upgradeVars, advisorVars>>
    \/ BatchPR /\ UNCHANGED <<roadmapVars, upgradeVars, advisorVars>>
    \/ BatchSummary /\ UNCHANGED <<roadmapVars, upgradeVars, advisorVars>>
    \/ IndividualRead /\ UNCHANGED <<roadmapVars, upgradeVars, advisorVars>>
    \/ IndividualBranch /\ UNCHANGED <<roadmapVars, upgradeVars, advisorVars>>
    \/ IndividualWrite /\ UNCHANGED <<roadmapVars, upgradeVars, advisorVars>>
    \/ IndividualCommit /\ UNCHANGED <<roadmapVars, upgradeVars, advisorVars>>
    \/ IndividualPush /\ UNCHANGED <<roadmapVars, upgradeVars, advisorVars>>
    \/ IndividualPR /\ UNCHANGED <<roadmapVars, upgradeVars, advisorVars>>
    \/ IndividualSummary /\ UNCHANGED <<roadmapVars, upgradeVars, advisorVars>>
    \/ FixCleanState /\ UNCHANGED <<roadmapVars, upgradeVars, advisorVars>>
    \/ FixBranch /\ UNCHANGED <<roadmapVars, upgradeVars, advisorVars>>
    \/ FixUpdate /\ UNCHANGED <<roadmapVars, upgradeVars, advisorVars>>
    \/ FixCommit /\ UNCHANGED <<roadmapVars, upgradeVars, advisorVars>>
    \/ FixPush /\ UNCHANGED <<roadmapVars, upgradeVars, advisorVars>>
    \/ FixPR /\ UNCHANGED <<roadmapVars, upgradeVars, advisorVars>>
    \/ FixSummary /\ UNCHANGED <<roadmapVars, upgradeVars, advisorVars>>
    \/ HelmRerun /\ UNCHANGED <<roadmapVars, upgradeVars, advisorVars>>

SpecCommand == CommandInit /\ [][CommandNext]_vars


(***************************************************************************)
(* Properties of generate_roadmap                                          *)
(***************************************************************************)
LastStep == roadmap.steps[Len(roadmap.steps)]

\* the walk of the returned roadmap ends at target_version
EndsAtTarget ==
    IF roadmap.steps = <<>>
    THEN roadmap.current_version = roadmap.target_version
    ELSE LastStep.to_version = roadmap.target_version

\* C1: in every returned roadmap with at least one step, the first step starts
\* at current_version and every step starts where the step before it ended,
\* whatever the path table holds.
C1_RoadmapChain ==
    (rpc = "done" /\ Len(roadmap.steps) >= 1) =>
        /\ roadmap.steps[1].from_version = roadmap.current_version
        /\ \A i \in 1..(Len(roadmap.steps) - 1) :
              roadmap.steps[i].to_version = roadmap.steps[i + 1].from_version

\* a returned roadmap of several steps that followed the path table
C1_Witness ==
    /\ rpc = "done"
    /\ Len(roadmap.steps) >= 3
    /\ roadmap.steps[1].to_version # roadmap.steps[2].to_version

\* the path table maps some A to B and B back to A
TwoCycle ==
    \E i, j \in 1..Len(path) :
        /\ i # j
        /\ path[i].value = path[j].key
        /\ path[j].value = path[i].key

\* C2: a walk that a cyclic path table keeps from reaching the target is
\* returned with exactly 20 steps.
C2_CappedAtExactly20 ==
    (rpc = "done" /\ TwoCycle /\ current # roadmap.target_version) =>
        Len(roadmap.steps) = MaxSteps

\* C3: a returned roadmap ends at the target or was cut by the step cap, and
\* one with fewer steps than the cap always ends at the target.
C3_TargetOrCapped ==
    rpc = "done" =>
        /\ EndsAtTarget \/ (warned /\ Len(roadmap.steps) >= MaxSteps)
        /\ Len(roadmap.steps) < MaxSteps => EndsAtTarget

\* a returned roadmap below the cap whose walk followed the table to the target
C3_Witness ==
    /\ rpc = "done"
    /\ Len(roadmap.steps) >= 2
    /\ Len(roadmap.steps) < MaxSteps
    /\ ~warned
    /\ EndsAtTarget

(***************************************************************************)
(* Properties of HelmRelease and of the candidate filter                   *)
(***************************************************************************)
ReleaseSet == {releases[i] : i \in 1..Len(releases)}

\* the major a version text of ReleaseVersions was written with; -1 for a
\* text that is no version, for None and for ""
WrittenMajor(text) ==
    IF text = V(1, 2, 0) THEN 1
    ELSE IF text = <<"v">> \o V(2, 0, 0) THEN 2
    ELSE IF \E m \in 1..MaxMajor : text = V(m, 0, 0)
         THEN CHOOSE m \in 1..MaxMajor : text = V(m, 0, 0)
         ELSE -1

\* latest-major minus current-major; 0 when a major is not known
MajorGap(r) ==
    LET c == WrittenMajor(r.current_version)
        l == WrittenMajor(r.latest_version)
    IN  IF c = -1 \/ l = -1 THEN 0 ELSE l - c

\* latest is known and differs from current
Outdated(r) ==
    /\ r.latest_version # None
    /\ r.latest_version # <<>>
    /\ r.latest_version # r.current_version

C5_UnresolvedNeverCandidate ==
    \A r \in ReleaseSet :
        (r.latest_version = None \/ r.latest_version = <<>>) =>
            /\ ~is_outdated(r)
            /\ version_gap(r) = 0
            /\ Priority(r) = "current"
            /\ \A i \in 1..Len(candidates) : candidates[i] # r

\* with --priority all, one release was chosen and the other, whose lookup
\* failed, was not
C5_Witness ==
    /\ upc = "chosen"
    /\ priority = "all"
    /\ Len(releases) = 2
    /\ Len(candidates) = 1
    /\ \E r \in ReleaseSet : r.latest_version = None

(***************************************************************************)
(* Properties of the step advisor                                          *)
(***************************************************************************)
AdvMajor(v) == parse_version(v)[1]

\* the available versions of the major right after the current one
NextMajorAvailable ==
    {v \in advisor.all_versions : AdvMajor(v) = AdvMajor(advisor.current) + 1}

\* the available versions strictly greater than current and <= latest
UpToLatest ==
    {v \in advisor.all_versions :
        /\ TupleLess(parse_version(advisor.current), parse_version(v))
        /\ TupleLeq(parse_version(v), parse_version(advisor.latest))}

C7_GapSkip ==
    (/\ apc = "returned"
     /\ AdvMajor(advisor.latest) # AdvMajor(advisor.current)
     /\ NextMajorAvailable = {}) =>
        IF UpToLatest = {}
        THEN new_version = advisor.latest
        ELSE /\ new_version \in UpToLatest \cup {advisor.latest}
             /\ \A v \in UpToLatest :
                   TupleLeq(parse_version(new_version), parse_version(v))

\* the next major is missing upstream, two later versions below latest were on
\* offer and the smaller was returned
C7_Witness ==
    /\ apc = "returned"
    /\ AdvMajor(advisor.latest) > AdvMajor(advisor.current) + 1
    /\ NextMajorAvailable = {}
    /\ new_version \in UpToLatest
    /\ \E v \in UpToLatest :
          TupleLess(parse_version(new_version), parse_version(v))

(***************************************************************************)
(* Properties of the executors                                             *)
(***************************************************************************)

\* the executor stands between two units, or has finished
BetweenUnits == epc \in {"tier", "read", "fix", "done"}

\* the i-th finished unit: its index, its feature branch, what it reported
UnitOf(i) == IF mode = "apply_fix" THEN i ELSE report[i].unit

BranchOf(i) ==
    IF mode = "apply_fix" THEN report[i].branch_name ELSE report[i].branch

PushFailed(i) ==
    IF mode = "apply_fix" THEN report[i].error = "Failed to push branch"
    ELSE report[i].outcome = "Failed to push"

PRCreated(i) ==
    IF mode = "apply_fix" THEN report[i].success
    ELSE report[i].outcome = "PR created"

\* the unit that has just ended lost its push after a commit that succeeded
PushJustFailed ==
    /\ BetweenUnits
    /\ report # <<>>
    /\ PushFailed(Len(report))
    /\ <<UnitOf(Len(report)), "commit">> \notin failed

\* C8: when the push of a unit fails after its edit and commit succeeded, the
\* unit ends with the base branch checked out and its feature branch deleted
\* from the local repository.
C8_RollbackOnPushFailure ==
    PushJustFailed =>
        /\ git.HEAD = master
        /\ BranchOf(Len(report)) \notin DOMAIN git.branches

\* C9: whenever a unit has ended, by success or by a failure at any step, the
\* base branch is checked out.
C9_EndsOnBase ==
    (BetweenUnits /\ report # <<>>) => git.HEAD = master

\* the repository a unit would start from had every earlier unit succeeded:
\* master checked out, nothing modified
CleanStart ==
    Repository(IF mode = "apply_fix" THEN ManifestTree ELSE HelmTree, master)

\* the edits unit u makes when it starts from there
EditsAlone(u) ==
    IF mode = "batched"
    THEN EditBatch(by_priority(priority_order[u]),
                   [g |-> CleanStart, changes |-> <<>>,
                    files_changed |-> <<>>]).g.worktree
    ELSE IF mode = "individual"
    THEN [CleanStart.worktree EXCEPT
            ![processed_releases[u].release.source_file] =
                RewriteVersion(@, processed_releases[u].old_version,
                               processed_releases[u].new_version)]
    ELSE UpdateManifests(ManifestVisits,
                         full_current_image(suggestions[u]),
                         full_suggested_image(suggestions[u]),
                         [g |-> CleanStart, changed_files |-> <<>>]).g.worktree

\* no command of unit u failed
Unharmed(u) == \A c \in {"commit", "push", "pr"} : <<u, c>> \notin failed

\* C10: a unit none of whose own commands failed ends as it would have ended
\* had every earlier unit succeeded: with a pull request for exactly its own
\* edits when it has edits to make, and without a branch when it has none.
C10_FailureIsolation ==
    \A i \in 1..Len(report) :
        Unharmed(UnitOf(i)) =>
            IF EditsAlone(UnitOf(i)) = CleanStart.worktree
            THEN ~PRCreated(i)
            ELSE /\ PRCreated(i)
                 /\ BranchOf(i) \in DOMAIN git.remote
                 /\ git.remote[BranchOf(i)] = EditsAlone(UnitOf(i))

\* a unit is under way: its branch is being created or one of its steps is due
UnitUnderWay ==
    epc \in {"branch", "edit", "write", "update", "commit", "push", "pr"}

\* C11: the steps of a unit run in order.  The edit is on disk only with the
\* feature branch checked out, the push is due only after a commit that
\* succeeded, the pull request is due only after a push that succeeded, and
\* no step of a unit is due after one of its commands failed.
C11_StepOrder ==
    /\ epc \in {"commit", "push", "pr"} =>
          /\ branch_name \in DOMAIN git.branches
          /\ git.HEAD = branch_name
    /\ epc = "push" => <<unit, "commit">> \notin failed
    /\ epc = "pr" => branch_name \in DOMAIN git.remote
    /\ \A b \in git.prs : b \in DOMAIN git.remote
    /\ UnitUnderWay =>
          \A c \in {"commit", "push", "pr"} : <<unit, c>> \notin failed

\* the i-th finished unit pushed its branch and was refused its pull request
PRFailed(i) == <<UnitOf(i), "pr">> \in failed

\* what a unit reports when it ends on an error of its own
ReportsError(i) ==
    IF mode = "apply_fix" THEN report[i].error # ""
    ELSE report[i].outcome \in {"Failed to push", "no changes",
                                "Source file not found",
                                "Could not find version to update"}

GitFailures(fs) == {f \in fs : f[2] # "pr"}

\* C13: a local branch of the unit's name left by the invocation before does
\* not fail the unit: when the edit is due the feature branch is checked out
\* and is a fresh branch at the commit of the base branch.  A second
\* invocation in which the same git commands fail as in the first ends with
\* the same branches, locally and on origin, the same branch checked out and
\* the same files, and with every pull request of the first.
C13_IdempotentRetry ==
    /\ (epc \in {"edit", "write"} /\ mode \in {"batched", "individual"}) =>
          /\ git.HEAD = branch_name
          /\ git.branches[branch_name] = git.branches[master]
    /\ (run > 1 /\ epc = "done"
           /\ GitFailures(failed) = GitFailures(earlier.failed)) =>
          /\ git.HEAD = earlier.git.HEAD
          /\ git.branches = earlier.git.branches
          /\ git.remote = earlier.git.remote
          /\ git.index = earlier.git.index
          /\ git.worktree = earlier.git.worktree
          /\ earlier.git.prs \subseteq git.prs

\* the second invocation has replaced the branch a successful first one left,
\* committed and pushed its edits again and finished
C13_Witness ==
    /\ run > 1 /\ epc = "done"
    /\ failed = {<<1, "pr">>}
    /\ earlier.failed = {}
    /\ \E i \in 1..Len(report) :
          /\ BranchOf(i) \in earlier.git.prs
          /\ git.remote[BranchOf(i)] = EditsAlone(UnitOf(i))
          /\ git.branches[BranchOf(i)] = EditsAlone(UnitOf(i))

\* the tree a branch of tier u may hold: that of the base branch, or that
\* with the edits of the releases of tier u
TierTrees(u) == {HelmTree, EditsAlone(u)}

\* C14: in per-tier mode the tiers are taken in the order critical, major,
\* minor, the base branch is checked out whenever a tier has ended, and the
\* branch of a tier holds, locally and on origin, no edit but those of the
\* releases of that tier.
C14_TiersSerialized ==
    mode = "batched" =>
        /\ \A i, j \in 1..Len(report) :
              i < j => report[i].unit < report[j].unit
        /\ (epc = "tier" /\ report # <<>>) => git.HEAD = master
        /\ \A u \in 1..Len(priority_order) :
              LET name == BatchBranchName(priority_order[u])
              IN  /\ name \in DOMAIN git.branches =>
                        git.branches[name] \in TierTrees(u)
                  /\ name \in DOMAIN git.remote =>
                        git.remote[name] \in TierTrees(u)

(***************************************************************************)
(* Properties of --dry-run                                                 *)
(***************************************************************************)

\* C15: with --dry-run the clone and the SLO database stay as the command
\* found them: no branch, file, commit, push or pull request, no SLO run
\* started and no file written.
C15_DryRunNoChanges ==
    dry_run =>
        /\ git = earlier.git
        /\ slo = earlier.slo

(***************************************************************************)
(* Properties of the releases handed to the executors                      *)
(***************************************************************************)

Precedes(a, b) ==
    /\ Len(a) = Len(b)
    /\ \E k \in 1..Len(a) : a[k] < b[k] /\ \A j \in 1..(k - 1) : a[j] = b[j]

\* the marker m lies in (from_version, to_version] of the step s
Crossed(m, s) ==
    /\ RoadmapParseOk(m)
    /\ RoadmapParseOk(s.from_version)
    /\ RoadmapParseOk(s.to_version)
    /\ Precedes(roadmap_parse_version(s.from_version), roadmap_parse_version(m))
    /\ \/ roadmap_parse_version(m) = roadmap_parse_version(s.to_version)
       \/ Precedes(roadmap_parse_version(m), roadmap_parse_version(s.to_version))

\* the texts of the crossed markers, one marker after the other
RECURSIVE CrossedChanges(_, _)
CrossedChanges(items, s) ==
    IF items = <<>> THEN <<>>
    ELSE (IF Crossed(Head(items).key, s)
          THEN Head(items).value.breaking_changes ELSE <<>>)
         \o CrossedChanges(Tail(items), s)

CrossedRisks(items, s) ==
    {items[i].value.risk : i \in {j \in 1..Len(items) : Crossed(items[j].key, s)}}

\* high > medium > low, low for no risk at all
MaxRisk(risks) ==
    IF "high" \in risks THEN "high"
    ELSE IF "medium" \in risks THEN "medium"
    ELSE "low"

\* the knowledgebase with its markers in every order
Reordered(items) ==
    {[i \in 1..Len(items) |-> items[f[i]]] :
        f \in {g \in [1..Len(items) -> 1..Len(items)] :
                  \A i, j \in 1..Len(items) : g[i] = g[j] => i = j}}

RECURSIVE ChangesUpTo(_)
ChangesUpTo(n) ==
    IF n = 0 THEN 0
    ELSE Len(roadmap.steps[n].breaking_changes) + ChangesUpTo(n - 1)

HighRiskSteps == {k \in 1..Len(roadmap.steps) : roadmap.steps[k].risk = "high"}

OtherSteps == (1..Len(roadmap.steps)) \ HighRiskSteps

VeleroEndToEnd ==
    /\ rpc = "done"
    /\ roadmap.chart = "velero"
    /\ roadmap.current_version = V(4, 3, 0)
    /\ roadmap.target_version = V(11, 2, 0)

\* C19 (as amended): the roadmap of velero from 4.3.0 to 11.2.0 under the
\* repository's tables has 6 steps, and its first step is 4.3.0 to 5.4.1
\* with the two breaking changes of marker 5.0.0 and risk high.
C19_VeleroEndToEnd ==
    VeleroEndToEnd =>
        /\ Len(roadmap.steps) = 6
        /\ roadmap.steps[1].from_version = V(4, 3, 0)
        /\ roadmap.steps[1].to_version = V(5, 4, 1)
        /\ roadmap.steps[1].breaking_changes = <<"velero-5-a", "velero-5-b">>
        /\ roadmap.steps[1].risk = "high"

\* C19 (as stated): the same roadmap has 6 steps, and its first step is
\* 4.3.0 to 5.4.1 with zero breaking changes and risk low.
C19_AsStated ==
    VeleroEndToEnd =>
        /\ Len(roadmap.steps) = 6
        /\ roadmap.steps[1].from_version = V(4, 3, 0)
        /\ roadmap.steps[1].to_version = V(5, 4, 1)
        /\ roadmap.steps[1].breaking_changes = <<>>
        /\ roadmap.steps[1].risk = "low"

\* that roadmap has been returned
C19_Witness ==
    /\ VeleroEndToEnd
    /\ roadmap.steps # <<>>
    /\ roadmap.steps[Len(roadmap.steps)].to_version = V(11, 2, 0)

(***************************************************************************)
(* Properties of versions that do not parse                                *)
(***************************************************************************)

\* the release is resolved and one of its two versions is no version
Unparsed(r) ==
    /\ ~Unset(r.latest_version)
    /\ \/ WrittenMajor(r.current_version) = -1
       \/ WrittenMajor(r.latest_version) = -1

\* C20: a release with a version that does not parse is not given the gap 0
\* of a release whose majors are equal, and is not put into one of the
\* classes that are decided by the gap.
C20_NoZeroCoercion ==
    \A r \in ReleaseSet :
        Unparsed(r) =>
            /\ version_gap(r) # 0
            /\ Priority(r) \notin {"critical", "major", "minor"}

(***************************************************************************)
(* Properties of the written form of a version                             *)
(***************************************************************************)

\* the same version written without "v" and with three segments
InFull(text) ==
    LET parts == split(lstrip(text, "v"), {"."})
    IN  V(int(parts[1]),
          IF Len(parts) > 1 THEN int(parts[2]) ELSE 0,
          IF Len(parts) > 2 THEN int(parts[3]) ELSE 0)

\* one version written in four ways, and another in two
WrittenTexts ==
    {V(5, 0, 0), V2(5, 0), <<"v">> \o V(5, 0, 0), <<"v">> \o V2(5, 0),
     V(1, 2, 3), <<"v">> \o V(1, 2, 3)}

\* C21: at every place that parses versions, a version written with a
\* leading "v" or with fewer segments is the version written in full: the
\* roadmap's range check gives every marker and every step the answer it
\* gives for the versions in full, and parse_semver, the step advisor's
\* parse_version and version_gap's major agree on the two forms.
C21_WrittenFormsAgree ==
    /\ \A k \in 1..Len(roadmap.steps), i \in 1..Len(breaking_changes) :
          LET s == roadmap.steps[k]
              m == breaking_changes[i].key
          IN  version_in_range(m, s.from_version, s.to_version)
                = version_in_range(InFull(m), InFull(s.from_version),
                                   InFull(s.to_version))
    /\ \A t \in WrittenTexts :
          /\ parse_semver(t) = parse_semver(InFull(t))
          /\ parse_version(t) = parse_version(InFull(t))
          /\ Major(t) = Major(InFull(t))

(***************************************************************************)
(* Properties of the scans                                                 *)
(***************************************************************************)

\* two releases describe one chart source of one application
SameSource(a, b) ==
    /\ a.name = b.name
    /\ a.chart = b.chart
    /\ a.repository = b.repository
    /\ a.current_version = b.current_version
    /\ a.source_file = b.source_file

\* C22: the releases a scan returns are de-duplicated: no two of them
\* describe the same chart source of the same application.
C22_ScanDeduplicated ==
    upc = "filter" =>
        \A i, j \in 1..Len(releases) :
            i # j => ~SameSource(releases[i], releases[j])

\* the lookup of the release met a failure: no repository, a repository
\* that is not known and cannot be added, a search that raises, exits
\* non-zero, prints no JSON, or does not list the chart
LookupFailed(release, helm) ==
    \/ release.repository = ""
    \/ release.repository \notin KNOWN_REPOS /\ helm.add = "raises"
    \/ helm.search \in {"raises", "nonzero", "garbage", "empty"}

\* C23: a lookup that fails leaves latest_version and latest_app_version of
\* its release unset and returns normally: the scan does not end with an
\* exception once lookups have begun, and it returns only after every
\* release has been looked up.
C23_LookupBestEffort ==
    sources.kind \in {"terraform", "argocd"} =>
        /\ Len(sources.answers) = fetched
        /\ \A i \in 1..fetched :
              LookupFailed(releases[i], sources.answers[i]) =>
                  /\ releases[i].latest_version = None
                  /\ releases[i].latest_app_version = None
        /\ fetched > 0 => upc \in {"scan", "filter"}
        /\ upc = "filter" => fetched = Len(releases)

\* a scan returned after a lookup that raised, a lookup in a repository
\* that could not be added, and a later lookup that found the chart
C23_Witness ==
    /\ upc = "filter"
    /\ sources.kind \in {"terraform", "argocd"}
    /\ \E i, j, k \in 1..Len(releases) :
          /\ i < k /\ j < k
          /\ sources.answers[i].search = "raises"
          /\ sources.answers[j].add = "raises"
          /\ releases[j].repository \notin KNOWN_REPOS
          /\ releases[j].repository # ""
          /\ ~LookupFailed(releases[k], sources.answers[k])
          /\ releases[k].latest_version = V(4, 0, 0)

\* the file cannot be read, or one of its documents does not parse
FailingSource(file) ==
    \/ ~file.readable
    \/ \E i \in 1..Len(file.content) : file.content[i] = Malformed

\* C24: no discovery error ends a scan with an exception, and a source
\* that fails contributes no release: none of the releases comes from a
\* file that could not be read or parsed, and a cluster that cannot be
\* listed yields the empty list.
C24_DiscoveryNeverFatal ==
    /\ upc # "raised"
    /\ sources.kind \in {"terraform", "argocd"} =>
          \A k \in 1..(sources.next - 1), i \in 1..Len(releases) :
              FailingSource(sources.files[k]) =>
                  releases[i].source_file # sources.files[k].path
    /\ (sources.kind = "cluster" /\ upc = "filter"
          /\ sources.files = <<"fails">>) => releases = <<>>

\* the findings a suggestion can come from: name and version both present
Complete(finding) ==
    ~Falsy(finding.component_name) /\ ~Falsy(finding.component_version)

\* C25: the suggestions generated for a list of findings hold at most one
\* suggestion per image:version, each comes from a finding that has both a
\* component name and a version, and each proposes a tag other than the
\* current one.
C25_SuggestionsDistinct ==
    epc = "suggested" =>
        /\ \A i, j \in 1..Len(suggestions) :
              (/\ suggestions[i].current_image = suggestions[j].current_image
               /\ suggestions[i].current_tag = suggestions[j].current_tag)
                  => i = j
        /\ \A i \in 1..Len(suggestions) :
              /\ \E k \in 1..Len(findings) :
                    /\ Complete(findings[k])
                    /\ findings[k].id = suggestions[i].finding_id
                    /\ findings[k].component_name
                           = suggestions[i].current_image
                    /\ findings[k].component_version
                           = suggestions[i].current_tag
              /\ suggestions[i].suggested_tag # suggestions[i].current_tag
              /\ ~Falsy(suggestions[i].suggested_tag)

\* a list with the same image:version twice and a finding without a name has
\* been turned into suggestions
C25_Witness ==
    /\ epc = "suggested"
    /\ suggestions # <<>>
    /\ \E i, j \in 1..Len(findings) :
          /\ i < j
          /\ Complete(findings[i]) /\ Complete(findings[j])
          /\ image_key(findings[i]) = image_key(findings[j])
          /\ \E k \in 1..Len(suggestions) :
                suggestions[k].finding_id = findings[i].id
    /\ \E i \in 1..Len(findings) : ~Complete(findings[i])

\* C26: every FixResult that apply_fix returns with success = false carries
\* a non-empty error, also when the branch was pushed and only the pull
\* request could not be created.
C26_FailureNamed ==
    mode = "apply_fix" =>
        \A i \in 1..Len(report) :
            ~report[i].success => report[i].error # ""

\* the place in main.tf of the declaration of a release
SharedLine(release) ==
    CHOOSE i \in 1..Len(SharedReleases) : SharedReleases[i] = release

\* two releases of one batch declared in the same file at the same version
\* and bound for different versions
SameVersionPair(a, b) ==
    /\ a.release # b.release
    /\ a.release.source_file = b.release.source_file
    /\ a.old_version = b.old_version
    /\ a.new_version # b.new_version

\* C27: when a tier's batch holds two releases declared in the same file at
\* the same current version and bound for different targets, then after the
\* batch has been edited each of the two is among the changes and its
\* declaration in the file holds its own target version.
C27_EachItsOwnTarget ==
    (mode = "batched" /\ epc = "commit") =>
        LET batch == by_priority(priority_order[unit])
        IN  \A i, j \in 1..Len(batch) :
                SameVersionPair(batch[i], batch[j]) =>
                    /\ \E c \in 1..Len(changes) :
                          changes[c] = batch[i].release.chart
                    /\ git.worktree[batch[i].release.source_file]
                                   [SharedLine(batch[i].release)].value
                           = batch[i].new_version

\* the file f after one visit of _update_file for the suggestion under way,
\* starting from the content the repository was given
VisitedOnce(f) ==
    UpdatedContent(TagTree[f], full_current_image(suggestions[unit]),
                   full_suggested_image(suggestions[unit]))

\* C28: updating the manifests is idempotent: after update_manifests_for_image
\* every file holds what a single visit of it writes, and no file is listed
\* twice among the changed files, whichever globs match it and also when the
\* old tag is a prefix of the new one.
C28_UpdateIdempotent ==
    (mode = "apply_fix" /\ epc = "commit" /\ unit = 1) =>
        /\ \A f \in DOMAIN git.worktree : git.worktree[f] = VisitedOnce(f)
        /\ \A i, j \in 1..Len(files_changed) :
              files_changed[i] = files_changed[j] => i = j

\* a helm-upgrade-pr --step command with a candidate more than one major
\* behind, past its dry-run check
StepwiseDue ==
    /\ mode \in {"batched", "individual"}
    /\ step_mode /\ ~dry_run
    /\ NeedsAllVersions
    /\ epc \notin {"setup", "plan"}

\* the target chosen for a candidate more than one major behind lies after
\* its current version and not after its latest
StepsForward(e) ==
    version_gap(e.release) > 1 =>
        /\ TupleLess(parse_version(e.old_version), parse_version(e.new_version))
        /\ TupleLeq(parse_version(e.new_version),
                    parse_version(e.release.latest_version))

\* C29: a stepwise upgrade makes progress and finishes: once the targets of
\* a --step command with a candidate more than one major behind are due,
\* every candidate has a target, each such target is strictly greater than
\* the current version and not greater than latest, and the command either
\* has reported or can go on.
C29_StepwiseProgress ==
    StepwiseDue =>
        /\ Len(processed_releases) = Len(candidates)
        /\ \A i \in 1..Len(processed_releases) :
              StepsForward(processed_releases[i])
        /\ epc = "done" \/ ENABLED CommandNext

\* the version a text denotes: its numbers, missing segments being 0
Padded(text) == roadmap_parse_version(InFull(text))

\* the roadmap is finished, ends on its target, and every step goes to a
\* later version
CompleteAscending ==
    /\ rpc = "done"
    /\ roadmap.steps # <<>>
    /\ EndsAtTarget
    /\ \A k \in 1..Len(roadmap.steps) :
          Precedes(Padded(roadmap.steps[k].from_version),
                   Padded(roadmap.steps[k].to_version))

\* the markers of the chart after the current version and up to the target,
\* as versions
MarkersOnTheWay ==
    {i \in 1..Len(breaking_changes) :
        LET m == Padded(breaking_changes[i].key)
        IN  /\ Precedes(Padded(roadmap.current_version), m)
            /\ \/ m = Padded(roadmap.target_version)
               \/ Precedes(m, Padded(roadmap.target_version))}

\* how often a text stands in a list of texts
Occurrences(texts, t) == Cardinality({i \in 1..Len(texts) : texts[i] = t})

\* how often a text stands in the first n steps of the roadmap
RECURSIVE OccurrencesInSteps(_, _)
OccurrencesInSteps(n, t) ==
    IF n = 0 THEN 0
    ELSE Occurrences(roadmap.steps[n].breaking_changes, t)
             + OccurrencesInSteps(n - 1, t)

\* how often a text stands in the markers of a set, and how many texts they
\* hold together
RECURSIVE OccurrencesInMarkers(_, _)
OccurrencesInMarkers(markers, t) ==
    IF markers = {} THEN 0
    ELSE LET i == CHOOSE j \in markers : TRUE
         IN  Occurrences(breaking_changes[i].value.breaking_changes, t)
                 + OccurrencesInMarkers(markers \ {i}, t)

RECURSIVE TextsOfMarkers(_)
TextsOfMarkers(markers) ==
    IF markers = {} THEN 0
    ELSE LET i == CHOOSE j \in markers : TRUE
         IN  Len(breaking_changes[i].value.breaking_changes)
                 + TextsOfMarkers(markers \ {i})

\* C30: in a complete roadmap whose steps each go to a later version, every
\* marker after the current version and up to the target is attributed to
\* exactly one step and no other marker to any: each breaking-change text
\* stands in the steps as often as in those markers, and
\* total_breaking_changes is the number of their texts.
C30_MarkersAttributedOnce ==
    CompleteAscending =>
        /\ \A i \in 1..Len(breaking_changes) :
              \A c \in 1..Len(breaking_changes[i].value.breaking_changes) :
                  LET t == breaking_changes[i].value.breaking_changes[c]
                  IN  OccurrencesInSteps(Len(roadmap.steps), t)
                          = OccurrencesInMarkers(MarkersOnTheWay, t)
        /\ roadmap.total_breaking_changes = TextsOfMarkers(MarkersOnTheWay)

====
